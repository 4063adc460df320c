---- MODULE FillDrawings ----
(***************************************************************************)
(* Sky130Decap and Sky130Tap, the cells that fill a row: two transistors    *)
(* that are capacitors between the rails, and the contacts of the well and  *)
(* of the substrate.  Unlike the other cells these are computed, from the   *)
(* width and the height that are asked for and from the rules of the        *)
(* process.                                                                 *)
(***************************************************************************)
EXTENDS Mask

\* The rules of the process, between shapes of a layer and between layers.
poly_separation == 210
diff_separation == 270
li_separation == 170
via_width == 170
via_spacing == 170
diff_to_poly == Greatest({250, 60 + 40 + via_width})
poly_to_diff == 130
poly_polycon_overhang == 80
via_enclosure == 80
cover_margin == 180

\* Layout::StampVias along a row: one in each pitch, while they fit.  (First a
\* mistaken one, which begins at the edge of the row.)
StampFromCorner(y, width, pitch) ==
    Vias({<<pitch * k, y>> : k \in {j \in 0..(width \div pitch) : pitch * j + via_width <= width}})
StampVias(y, width, pitch) ==
    Vias({<<pitch \div 2 + pitch * k, y>> :
              k \in {j \in 0..(width \div pitch) : pitch * j + (pitch - via_width) \div 2 + via_width <= width}})

\* Layout::DistributeVias along a column: as many as fit, spread evenly.
DistributeVias(x, low, high) ==
    LET num_vias == (high - low) \div (via_width + via_spacing)
        spacing == (high - low - num_vias * via_width) \div num_vias
    IN  Vias({<<x, low + spacing \div 2 + via_width \div 2 + k * (via_width + spacing)>> :
                  k \in 0..(num_vias - 1)})

Rails(width, height) == {Box(0, -240, width, 240), Box(0, height - 240, width, height + 240)}
RailPads(p) == {Pad("VGND", "met1", Box(0, -240, p.width, 240)),
                Pad("VPWR", "met1", Box(0, p.height - 240, p.width, p.height + 240))}

-----------------------------------------------------------------------------
(* Sky130Decap: the poly over each diffusion has a tab in the other half of *)
(* the cell's width, where it meets the pour of local wiring that comes     *)
(* from the rail across.                                                    *)

ndiff_height == 550
pdiff_height == 870
rail_height == 170

DecapDiffusion(p) ==
    LET edge == diff_separation \div 2
        margin == poly_separation \div 2 + poly_to_diff
    IN  [n |-> Box(edge, margin, p.width - edge, margin + ndiff_height),
         p |-> Box(edge, p.height - margin - pdiff_height, p.width - edge, p.height - margin)]

\* The poly that crosses a diffusion.
Crossing(diff) == Box(diff.x1 + diff_to_poly, diff.y1 - poly_to_diff,
                      diff.x2 - diff_to_poly, diff.y2 + poly_to_diff)

Tabs(p) ==
    LET upper == Crossing(DecapDiffusion(p).p)
        lower == Crossing(DecapDiffusion(p).n)
        edge == poly_separation \div 2
        tab_width == (p.width - 2 * poly_separation) \div 2
    IN  [upper |-> Box(edge, lower.y2 + poly_separation, edge + tab_width, upper.y1),
         lower |-> Box(p.width - edge - tab_width, lower.y2, p.width - edge, upper.y1 - poly_separation)]

DecapPolycons(p) ==
    LET inset == via_width \div 2 + poly_polycon_overhang
        tabs == Tabs(p)
    IN  Vias({<<tabs.upper.x1 + inset, tabs.upper.y1 + inset>>,
              <<tabs.lower.x2 - inset, tabs.lower.y2 - inset>>})

\* The pours, each with an arm beside the other.  (First with arms as long as
\* the cell allows.)
PoursThatMeet(p) ==
    LET low == rail_height \div 2
        high == p.height - rail_height \div 2
        edge == li_separation \div 2
        notch == (p.width - 2 * li_separation) \div 2
        middle == p.height \div 2
    IN  Outlines({
            <<p.width - edge, low, edge, middle, edge + notch, high>>,
            <<p.width - edge, high, edge, middle, p.width - edge - notch, low>>})
DecapPours(p) ==
    LET upper == Crossing(DecapDiffusion(p).p)
        lower == Crossing(DecapDiffusion(p).n)
        low == rail_height \div 2
        high == p.height - rail_height \div 2
        edge == li_separation \div 2
        notch == (p.width - 2 * li_separation) \div 2
        reach == poly_polycon_overhang + poly_separation + via_width
        bottom == Greatest({lower.y2 + reach, upper.y1 - poly_polycon_overhang})
        top == Least({upper.y1 - reach, lower.y2 + poly_polycon_overhang})
    IN  Outlines({
            <<p.width - edge, low, edge, bottom, edge + notch, top - li_separation>>,
            <<p.width - edge, high, edge, bottom + li_separation, p.width - edge - notch, top>>})

\* (First mistaken: with the edge of a contact where its centre should be.)
ContactsOnTheEdge(p) ==
    LET diffs == {DecapDiffusion(p).n, DecapDiffusion(p).p}
        inset == Least({60, 40})
    IN  DecapPolycons(p) \cup
        UNION {DistributeVias(x, b.y1, b.y2) : <<b, x>> \in
                  {<<b, b.x1 + inset>> : b \in diffs} \cup {<<b, b.x2 - inset>> : b \in diffs}}
DecapContacts(p) ==
    LET diffs == {DecapDiffusion(p).n, DecapDiffusion(p).p}
        inset == Least({60, 40}) + via_width \div 2
    IN  DecapPolycons(p) \cup
        UNION {DistributeVias(x, b.y1, b.y2) : <<b, x>> \in
                  {<<b, b.x1 + inset>> : b \in diffs} \cup {<<b, b.x2 - inset>> : b \in diffs}}

DecapWells(p) ==
    LET upper == [Padded(DecapDiffusion(p).p, cover_margin) EXCEPT
                    !.y2 = IF p.pins THEN p.height + via_width \div 2 ELSE p.height]
    IN  [nwell |-> {upper}, psdm |-> {upper},
         nsdm |-> {[Padded(DecapDiffusion(p).n, cover_margin) EXCEPT !.y1 = 0]},
         npc |-> {Padded(Hull(DecapPolycons(p)), 100)}]

DecapCircuit(p) ==
    LET poly == Crossing(DecapDiffusion(p).p)
        Capacitor(f) == [f EXCEPT !.l = poly.x2 - poly.x1]
    IN  {Capacitor(NFet("VPWR", "VGND", "VGND", ndiff_height)),
         Capacitor(PFet("VGND", "VPWR", "VPWR", pdiff_height))}

Decap(p) ==
    LET diffusion == DecapDiffusion(p)
        tabs == Tabs(p)
        mcon(y, drawn) == IF p.pins /\ drawn THEN StampVias(y, p.width, 460) ELSE {}
        wires == Drawing([
            diff |-> {diffusion.n, diffusion.p}, licon |-> DecapContacts(p),
            poly |-> {Crossing(diffusion.n), Crossing(diffusion.p), tabs.upper, tabs.lower},
            li |-> DecapPours(p) \cup {Sized(0, y - 85, p.width, 170) : y \in {0, p.height}},
            mcon |-> mcon(0, p.draw_vgnd_vias) \cup mcon(p.height, p.draw_vpwr_vias),
            met1 |-> Rails(p.width, p.height)])
    IN  Cell(Over(Drawing(DecapWells(p)), wires), Box(0, 0, p.width, p.height), RailPads(p), {},
             DecapCircuit(p))

-----------------------------------------------------------------------------
(* Sky130Tap: an arm of local wiring from each rail, and a tap under it.    *)

tap_width == 460
li_to_edge == li_separation \div 2
li_ground_arm_length == 725
li_power_arm_length == 1165
continuity_sdm_height == 380
tap_overhang == 120
tap_to_sdm == 130
tap_min_area == 70110

\* The least length of a tap that is as wide as the local wiring: rounded up.
min_length == (tap_min_area + 169) \div 170

HowManyViasFitInLiSpan(low, high) == (high - low + via_spacing) \div (via_width + via_spacing)

\* The lower left corners of the contacts of a tap, from y upwards.
TapContacts(y, num_vias) ==
    Cuts({<<tap_width \div 2 - via_width \div 2, y + k * (via_width + via_spacing)>> : k \in 0..(num_vias - 1)})

GroundTap ==
    LET arm == Sized(li_to_edge, 85, tap_width - li_separation, li_ground_arm_length)
        closest == Greatest({arm.y1 + via_enclosure, continuity_sdm_height \div 2 + tap_to_sdm})
        furthest == Greatest({arm.y2 - via_enclosure, closest + min_length})
        num_vias == HowManyViasFitInLiSpan(closest, furthest)
        via_span == Greatest({num_vias * (via_width + via_spacing), min_length})
        low == closest - tap_overhang
        tap == Box(tap_width \div 2 - via_width \div 2, low,
                   tap_width \div 2 + via_width \div 2, Greatest({furthest + tap_overhang, low + via_span}))
    IN  [arm |-> arm, contacts |-> TapContacts(closest, num_vias), tap |-> tap,
         implant |-> Box(0, continuity_sdm_height \div 2, tap_width, tap.y2 + tap_to_sdm)]

PowerTap(height) ==
    LET arm == Sized(li_to_edge, height - 85 - li_power_arm_length,
                     tap_width - li_separation, li_power_arm_length)
        upper_psdm == height - continuity_sdm_height \div 2
        furthest == arm.y1 + via_enclosure
        closest == Least({arm.y2 - via_enclosure, upper_psdm - tap_to_sdm})
        contacts == TapContacts(furthest, HowManyViasFitInLiSpan(furthest, closest))
        tap == Box(Hull(contacts).x1, Hull(contacts).y1 - tap_overhang,
                   Hull(contacts).x2, Hull(contacts).y2 + tap_overhang)
        half == Greatest({tap.x2 - tap.x1 + 2 * cover_margin, 840}) \div 2
        middle == (tap.x1 + tap.x2) \div 2
    IN  [arm |-> arm, contacts |-> contacts, tap |-> tap,
         implant |-> Box(0, tap.y1 - tap_to_sdm, tap_width, upper_psdm),
         nwell |-> Box(middle - half, tap.y1 - cover_margin, middle + half,
                       Greatest({tap.y2 + cover_margin, height + continuity_sdm_height \div 2}))]

Tap(p) ==
    LET ground == GroundTap
        power == PowerTap(p.height)
        sdm(y) == Sized(0, y - continuity_sdm_height \div 2, tap_width, continuity_sdm_height)
    IN  Cell(Drawing([
                li |-> {ground.arm, power.arm} \cup {Sized(0, y - 85, tap_width, 170) : y \in {0, p.height}},
                licon |-> ground.contacts \cup power.contacts, tap |-> {ground.tap, power.tap},
                mcon |-> Vias((IF p.draw_vgnd_vias THEN {<<230, 0>>} ELSE {})
                              \cup (IF p.draw_vpwr_vias THEN {<<230, p.height>>} ELSE {})),
                met1 |-> Rails(tap_width, p.height), nwell |-> {power.nwell},
                psdm |-> {sdm(p.height), ground.implant}, nsdm |-> {sdm(0), power.implant}]),
             Box(0, 0, tap_width, p.height), RailPads([p EXCEPT !.width = tap_width]), {}, {})
====
