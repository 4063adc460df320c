---- MODULE Mux21Drawing ----
(***************************************************************************)
(* Sky130HdMux21: the drawing of a 2:1 multiplexer, taken from the          *)
(* foundry's library, and the circuit that it is said to be.  Its height    *)
(* and width, and the sizes of its transistors, are fixed.                  *)
(***************************************************************************)
EXTENDS Mask

\* Poly runs through the cell as gates, diffusion is in a strip for each kind.
Poly == Outlines({
    <<380, 995, 395, 105, 545, 995, 650, 1325, 545, 2615, 395, 1325>>,
    <<860, 995, 940, 105, 1090, 995, 1130, 1325, 1090, 2420, 940, 1325>>,
    <<3245, 1380, 3365, 105, 3515, 2420, 3365, 1710>>,
    <<2525, 105, 2675, 845, 3155, 1115, 3035, 2420, 2885, 1115, 2825, 995>>,
    <<2405, 1380, 2675, 2420, 2525, 1710>>,
    <<1420, 105, 1570, 815, 1835, 1145>>,
    <<2045, 105, 2195, 815, 2315, 1145, 2195, 1795, 1605, 2420, 1455, 1645>>})

Diffusion == Outlines({
    <<135, 235, 3775, 655, 805, 885>>,
    <<135, 1485, 805, 1870, 3795, 2290, 805, 2485>>})

Contacts == Cuts({
    <<175, 2255>>, <<3295, 1460>>, <<1775, 1955>>, <<175, 1915>>, <<1630, 370>>, <<3135, 1955>>,
    <<1615, 895>>, <<3565, 1955>>, <<2905, 895>>, <<3145, 370>>, <<2805, 370>>, <<2455, 1460>>,
    <<910, 1075>>, <<595, 295>>, <<2150, 1955>>, <<3565, 370>>, <<2095, 895>>, <<595, 1575>>,
    <<595, 1915>>, <<595, 2255>>, <<430, 1075>>, <<175, 390>>, <<175, 1575>>})

LocalWires == {Box(1990, 255, 2265, 1415)} \cup Outlines({
    <<0, -85, 4140, 85, 3315, 620, 2805, 85, 845, 485, 515, 85>>,
    <<0, 2635, 595, 1495, 765, 2635, 3135, 1875, 3305, 2635, 4140, 2805>>,
    <<90, 255, 345, 825, 260, 1495, 425, 2465>>,
    <<515, 655, 1270, 255, 1800, 620, 1445, 1955, 2400, 2125, 1275, 825, 685, 1325, 430, 995>>,
    <<1615, 815, 1785, 1615, 2435, 255, 2625, 1785>>,
    <<910, 995, 1105, 2295, 2795, 1440, 3545, 1630, 2965, 2465, 935, 1325>>,
    <<2825, 895, 3535, 290, 3780, 895, 4055, 2285, 3540, 1875, 3715, 1065>>})

\* Between the rails of met1 and those of li.
RailCuts == Cuts({<<145 + 460 * k, y>> : k \in 0..8, y \in {-85, 2635}})
Rails == {Box(0, 2480, 4140, 2960), Box(0, -240, 4140, 240)}

PImplant == Outlines({
    <<0, 1355, 2345, 1740, 2735, 1355, 3185, 1740, 3575, 1355, 4140, 2910>>})
Wells == [
    nwell |-> {Box(-190, 1305, 4330, 2910)},
    nsdm |-> {Box(0, -190, 4140, 1015)},
    npc |-> Outlines({
        <<0, 975, 1515, 795, 2365, 975, 2805, 795, 3175, 975, 4140, 1345, 3565, 1730,
          3195, 1345, 2725, 1730, 2355, 1345>>})]

Bounds == Box(0, 0, 4140, 2720)

Pads ==
    {Pad("VGND", "met1", Box(150, -85, 320, 85)), Pad("VPWR", "met1", Box(150, 2635, 320, 2805)),
     Pad("X", "li", Box(150, 2125, 320, 2295)), Pad("X", "li", Box(150, 1785, 320, 1955)),
     Pad("X", "li", Box(150, 425, 320, 595)),
     Pad("A1", "li", Box(2450, 1105, 2620, 1275)), Pad("A1", "li", Box(2450, 765, 2620, 935)),
     Pad("S", "li", Box(2910, 1445, 3080, 1615)), Pad("S", "li", Box(3370, 1445, 3540, 1615)),
     Pad("A0", "li", Box(1990, 1105, 2160, 1275)), Pad("A0", "li", Box(1990, 425, 2160, 595))}

\* Where the nets without a port are seen.
Marks ==
    {Mark("S_B", "li", 3900, 1500), Mark("X_B", "li", 1700, 300),
     Mark("I0", "diff", 1250, 2000), Mark("I1", "diff", 1250, 400),
     Mark("I2", "diff", 2780, 2000), Mark("I3", "diff", 2350, 400)}

\* GenerateCircuit, with the sizes that Parameters give where nothing else is said.
Buffers == Inverter("S", "S_B", 420, 420) \cup Inverter("X_B", "X", 1000, 650)
Selection ==
    {PFet("S", "I0", "VPWR", 420), PFet("A0", "X_B", "I0", 420),
     NFet("A1", "X_B", "I1", 420), NFet("S", "I1", "VGND", 420),
     PFet("S_B", "I2", "VPWR", 420), PFet("A1", "X_B", "I2", 420),
     NFet("A0", "X_B", "I3", 420), NFet("S_B", "I3", "VGND", 420)}
Circuit == Buffers \cup Selection

Layout == Drawing([diff |-> Diffusion, poly |-> Poly, licon |-> Contacts, li |-> LocalWires,
                   mcon |-> RailCuts, met1 |-> Rails, nwell |-> Wells.nwell,
                   nsdm |-> Wells.nsdm, psdm |-> PImplant, npc |-> Wells.npc])

HdMux21 == Cell(Layout, Bounds, Pads, Marks, Circuit)
====
