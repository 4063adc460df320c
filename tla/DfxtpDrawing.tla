---- MODULE DfxtpDrawing ----
(***************************************************************************)
(* Sky130Dfxtp: the drawing of the flip-flop, and the circuit that it is    *)
(* said to be.  The foundry's flip-flop is cut off at its left and a        *)
(* narrower buffer of the clock is put there, when one is asked for; the    *)
(* place of the cut is x_start, the left edge of the cell is at x_min.      *)
(*                                                                         *)
(* Parameters that are set nowhere (the height, and widths of transistors)  *)
(* have the values they start with.                                         *)
(***************************************************************************)
EXTENDS Mask

x_start == 20 - 460
LeftEdge(p) == IF p.input_clock_buffer THEN x_start - 920 ELSE x_start

Poly == Outlines({
    <<1810, 795, 1945, 105, 2095, 795, 2180, 1065, 1960, 2615>>,
    <<855, 735, 955, 105, 1105, 735, 1185, 1005>>,
    <<70, 1335, 395, 105, 545, 2615, 395, 1665>>,
    <<755, 1215, 1450, 105, 1600, 1365, 1085, 1485, 970, 2615, 820, 1485>>,
    <<1295, 1575, 1600, 1905, 1445, 2615>>,
    <<3935, 1575, 4050, 105, 4200, 1575, 4340, 1905, 4085, 2615>>,
    <<3360, 1605, 3690, 1875, 3515, 2615, 3365, 1875>>,
    <<2880, 1245, 3575, 105, 3725, 1395, 3150, 1575, 3095, 2615, 2945, 1575>>,
    <<5355, 995, 5415, 105, 5565, 995, 5625, 1325, 5555, 2615, 5405, 1325>>,
    <<4435, 995, 4995, 105, 5145, 1325, 5135, 2615, 4985, 1325>>,
    <<3045, 105, 3195, 705, 3365, 1035>>,
    <<2470, 950, 2540, 105, 2690, 1100, 2620, 2615, 2470, 1545, 2170, 1275>>})

Diffusion == {Box(4715, 1485, 5815, 2485), Box(4735, 235, 5825, 885)} \cup Outlines({
    <<135, 2065, 2035, 1735, 2870, 2065, 4350, 2485>>,
    <<135, 235, 4460, 655, 3800, 595, 2940, 875, 2290, 655, 1695, 595, 795, 655>>})

Contacts == Cuts({
    <<600, 365>>, <<835, 1265>>, <<935, 785>>, <<1055, 2190>>, <<1155, 365>>, <<1380, 1655>>,
    <<1930, 845>>, <<2150, 335>>, <<2250, 2255>>, <<2250, 1915>>, <<2250, 1325>>, <<2670, 2215>>,
    <<5195, 445>>, <<5405, 1075>>, <<4755, 1545>>, <<5605, 2225>>, <<4775, 640>>, <<4775, 300>>,
    <<5185, 2105>>, <<5605, 1885>>, <<5605, 1545>>, <<5615, 650>>, <<2745, 365>>, <<2930, 1325>>,
    <<3145, 2165>>, <<3145, 785>>, <<3260, 365>>, <<3440, 1655>>, <<4120, 1655>>, <<5615, 310>>,
    <<4140, 2215>>, <<4755, 1900>>, <<5185, 1705>>, <<175, 295>>, <<4250, 365>>, <<120, 1415>>,
    <<4485, 1075>>, <<595, 2215>>, <<4755, 2255>>, <<175, 2255>>})

\* The rails begin at the cut.
LocalWires ==
    {Box(10, 715, 290, 1665), Box(800, 1125, 1040, 1720), Box(2930, 1245, 3120, 1965)} \cup
    Outlines({
        <<5525, 1495, 5700, 1445, 5745, 865, 5690, 825, 5535, 305, 5865, 740,
          5915, 1575, 5855, 2420>>,
        <<3165, 365, 3950, 995, 4655, 1325, 3950, 2335, 3065, 2165, 3780, 535>>,
        <<4695, 300, 5025, 995, 5575, 1325, 5015, 2465, 4675, 1905, 4120, 1530, 4825, 825>>,
        <<3145, 705, 3610, 1995, 3290, 1035>>,
        <<x_start, 2635, 80, 2175, 345, 2635, 2250, 1835, 2420, 2635, 4130, 2135, 4445, 2635,
          5185, 1625, 5355, 2635, 6000, 2805>>,
        <<x_start, -85, 6000, 85, 5365, 695, 5195, 85, 4435, 615, 4225, 85, 2410, 585,
          2040, 85, 345, 545, 95, 85>>,
        <<515, 365, 850, 535, 685, 805, 630, 1910, 765, 2465, 515, 2040, 460, 675>>,
        <<855, 735, 1380, 1655, 1740, 2020, 1210, 955>>,
        <<1045, 365, 1720, 1315, 2250, 1245, 2420, 1575, 2080, 2360, 975, 2190,
          1910, 1485, 1550, 535>>,
        <<2590, 365, 2995, 535, 2760, 2135, 2840, 2465, 2590, 1065, 2130, 1095, 1930, 765>>})

\* Between li and met1: along either rail where that is asked for, and at the
\* two wires of the clock.
WireCuts(p) ==
    Cuts({<<2940, 1785>>, <<3375, 1445>>, <<1370, 1785>>, <<855, 1445>>}
         \cup {<<165 + 460 * k, y>> : k \in -1..12,
                   y \in (IF p.draw_vgnd_vias THEN {-85} ELSE {})
                         \cup (IF p.draw_vpwr_vias THEN {2635} ELSE {})})

clk_i_bar == <<1310, 1755, 1600, 1800, 2880, 1755, 3170, 1985, 2880, 1940, 1600, 1985>>
clk_bar == <<795, 1415, 1085, 1460, 3315, 1415, 3605, 1645, 3315, 1600, 1085, 1645>>
Metal(x_min) ==
    {Box(x_min, 2480, 6000, 2960), Box(x_min, -240, 6000, 240)} \cup Outlines({clk_i_bar, clk_bar})

Npc == Outlines({
    <<x_start + 380, 975, 835, 685, 1545, 745, 2230, 975, 2960, 685, 3415, 795, 4315, 975,
      6000, 1345, 4550, 1925, 3315, 1595, 1725, 1925, 735, 1685, 20, 1420>>})

Wells(x_min) == [
    nsdm |-> {Box(x_min, -190, 6000, 1015)},
    nwell |-> {Box(x_min - 190, 1305, 6190, 2910)},
    psdm |-> Outlines({
        <<x_min, 1935, 1880, 1605, 3305, 1935, 4570, 1355, 6000, 2910>>})]

Bounds(x_min) == Box(x_min, 0, 6000, 2720)

-----------------------------------------------------------------------------
(* DrawInputClockBuffer: two inverters at the left edge.                    *)

height_nm == 2720

BufferFets(x) ==
    LET transistor_mid_x == x + 135 + 545
        pfet_top == height_nm - 265
    IN  [diff |-> {Box(x + 135, 235, transistor_mid_x, 235 + 420),
                   Box(transistor_mid_x, 235, transistor_mid_x + 545, 235 + 420)} \cup
                  Outlines({<<x + 135, pfet_top, transistor_mid_x + 545, pfet_top - 640>>}),
         poly |-> Outlines({
            <<x + 395, 730, x + 230, 995, x + 110, 1325, x + 230, 1740, x + 395, 2585,
              x + 545, 1590, x + 380, 880, x + 545, 105>>,
            <<x + 815, 1100, x + 590, 1370, x + 815, 2585, x + 965, 105>>}),
         npc |-> Outlines({<<x, 1345, x + 565, 1420, x + 1300, 975>>})]

BufferWires(x) ==
    LET h == height_nm
    IN  [li |-> {Box(x + 1015, 345, x + 1200, 2465), Box(x + 90, 975, x + 440, 1625)} \cup
            Outlines({
                <<x, 85, x + 515, 465, x + 845, 85, x + 920, -85>>,
                <<x, h + 85, x + 920, h - 85, x + 845, h - 585, x + 515, h - 85>>,
                <<x + 175, 805, x + 610, 1795, x + 175, 2465, x + 345, 1965,
                  x + 840, 635, x + 345, 345>>}),
         licon |-> Vias({
            <<x + 680, 380>>, <<x + 680, 2220>>,
            <<x + 1100, 2300>>, <<x + 1100, 1960>>, <<x + 1100, 510>>,
            <<x + 260, 2300>>, <<x + 260, 1960>>, <<x + 260, 510>>,
            <<x + 245, 1160>>, <<x + 725, 1235>>}),
         mcon |-> Vias({<<x + 230, 0>>, <<x + 690, 0>>, <<x + 230, h>>, <<x + 690, h>>,
                        <<x + 715, 1870>>, <<x + 1110, 1530>>}),
         met1 |-> Outlines({
            <<x + 570, 1985, x + 860, 1940, x + 2670, 1800, x + 860, 1755>>,
            <<x + 965, 1645, x + 1255, 1600, x + 2155, 1460, x + 1255, 1415>>})]

-----------------------------------------------------------------------------
(* The whole.                                                               *)

Layout(p) ==
    LET x_min == LeftEdge(p)
        wells == Wells(x_min)
        flop == Drawing([diff |-> Diffusion, poly |-> Poly, licon |-> Contacts,
                         li |-> LocalWires, mcon |-> WireCuts(p), met1 |-> Metal(x_min),
                         npc |-> Npc, nsdm |-> wells.nsdm, nwell |-> wells.nwell,
                         psdm |-> wells.psdm])
    IN  IF p.input_clock_buffer
            THEN Over(flop, Over(Drawing(BufferFets(x_min)), Drawing(BufferWires(x_min))))
            ELSE flop

\* The second pad of D and those of the clocks give way to a buffer.
Pads(p) ==
    LET x_min == LeftEdge(p)
        pin_Q == Box(5590, 425, 5760, 595)
    IN  {Pad("D", "li", Box(85, 1105, 255, 1275)), Pad("D", "li", Box(85, 765, 255, 935)),
         Pad("Q", "li", pin_Q), Pad("Q", "li", Shifted(pin_Q, 0, 5 * 340)),
         Pad("VPWR", "met1", Sized(1370 + 345, 2720 - 85, 170, 170)),
         Pad("VGND", "met1", Sized(1370 + 690, -85, 170, 170))}
        \cup (IF p.add_inverted_output_port THEN {Pad("QI", "li", Shifted(pin_Q, -340, 680))}
              ELSE {})
        \cup (IF p.input_clock_buffer
              THEN {Pad("CLK", "li", Square(<<x_min + 230, 1190>>, 170))}
              ELSE {Pad("D", "li", Box(85, 1445, 255, 1615)),
                    Pad("CLK", "met1", Box(3375, 1445, 3545, 1615)),
                    Pad("CLK", "met1", Box(855, 1445, 1025, 1615)),
                    Pad("CLKI", "met1", Box(2940, 1785, 3110, 1955)),
                    Pad("CLKI", "met1", Box(1370, 1785, 1540, 1955))})

\* Where the nets without a port are seen: the wires of the clocks by the nets
\* that the generator gives them.
Marks(p) ==
    {Mark("a", "li", 600, 1000), Mark("b", "li", 1200, 450), Mark("c", "li", 2700, 450),
     Mark("f", "li", 3400, 450), Mark("QI", "li", 4800, 600),
     Mark("e", "diff", 1800, 400), Mark("h", "diff", 3700, 2300), Mark("i", "diff", 3900, 400),
     Mark("j", "diff", 1700, 2300),
     Mark("CLKI", "met1", 2000, 1870),
     Mark(IF p.input_clock_buffer THEN "CLK_INT" ELSE "CLK", "met1", 2000, 1530)}

\* GenerateCircuit, with the sizes that Parameters give where nothing else is said.
InternalClock(p) == IF p.input_clock_buffer THEN "CLK_INT" ELSE "CLK"
InputStage(clk) ==
    Inverter("D", "a", 420, 420) \cup {PFet(clk, "b", "a", 420), NFet("CLKI", "b", "a", 360)}
MasterStage(clk) ==
    Inverter("b", "c", 750, 640) \cup
    {PFet("c", "j", "VPWR", 420), PFet("CLKI", "b", "j", 420),
     NFet(clk, "b", "e", 360), NFet("c", "e", "VGND", 420)}
SlaveStage(clk) ==
    Inverter("f", "QI", 1000, 650) \cup
    {PFet("CLKI", "f", "c", 420), NFet(clk, "f", "c", 360),
     PFet("QI", "h", "VPWR", 420), PFet(clk, "f", "h", 420),
     NFet("CLKI", "f", "i", 360), NFet("QI", "i", "VGND", 420)}
ClockBuffer == Inverter("CLK", "CLKI", 640, 420) \cup Inverter("CLKI", "CLK_INT", 640, 420)

Circuit(p) ==
    LET clk == InternalClock(p)
    IN  InputStage(clk) \cup MasterStage(clk) \cup SlaveStage(clk)
        \cup Inverter("QI", "Q", 1000, 650)
        \cup (IF p.input_clock_buffer THEN ClockBuffer ELSE {})

\* Its left edge is moved to 0.
Dfxtp(p) == Moved(Cell(Layout(p), Bounds(LeftEdge(p)), Pads(p), Marks(p), Circuit(p)),
                  -LeftEdge(p), 0)
====
