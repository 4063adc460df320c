---- MODULE Layouts ----
(***************************************************************************)
(* Layouts: shapes by layer, ports, instances of other layouts, and what   *)
(* is done to all of these at once: mirroring, moving, flattening, copying *)
(* shapes out of a hierarchy, drawing vias and wires, and exporting.       *)
(*                                                                         *)
(* Rotations are in quarter turns. The templates of instances are found by *)
(* name in a library, a function from names to layouts. A name is the path *)
(* that its dots separate, so that a prefix is put before it with \o, and  *)
(* NoName is the empty string. Optional values are sets, and equivalent    *)
(* nets the set of their names.                                            *)
(***************************************************************************)
EXTENDS PolyLines

CONSTANTS
    Rules,          \* layer -> [via_width, via_height, min_width, min_separation, min_area]
    ViaRules,       \* <<layer, via layer>> -> [via_overhang, via_overhang_wide]
    ViaLayer,       \* <<layer, layer>> -> the via layer between them
    UnitsPerExternal

NoName == <<"">>
Prefixed(prefix, name) == IF prefix = NoName THEN name ELSE prefix \o name

-----------------------------------------------------------------------------
(* Shapes and collections of them. The form of a shape is its rectangle, its *)
(* vertices or its poly-line, by kind; a port is listed while the layout     *)
(* finds it by its net.                                                      *)

Kinds == {"rectangles", "polygons", "ports", "poly_lines"}

Shape(form, layer, net) ==
    [form |-> form, layer |-> layer, net |-> net, is_connectable |-> FALSE, listed |-> FALSE]
Port(box, layer, net) == [Shape(box, layer, net) EXCEPT !.is_connectable = TRUE]

Nothing == [kind \in Kinds |-> <<>>]

\* A copy of a port is connectable, and a copy of a poly-line has no layer and no net.
CopyOfShape(kind, s) ==
    CASE kind = "ports" -> Port(s.form, s.layer, s.net)
      [] kind = "poly_lines" -> Shape(CopyOf(s.form), 0, NoName)
      [] OTHER -> s

AddShapes(shapes, other, Include(_)) ==
    [kind \in Kinds |->
        LET added == SelectSeq(other[kind], Include)
        IN  shapes[kind] \o [i \in DOMAIN added |-> CopyOfShape(kind, added[i])]]
AddAllShapes(shapes, other) == AddShapes(shapes, other, LAMBDA s : TRUE)
AddConnectableShapes(shapes, other) == AddShapes(shapes, other, LAMBDA s : s.is_connectable)
AddNonConnectableShapes(shapes, other) == AddShapes(shapes, other, LAMBDA s : ~s.is_connectable)
AddConnectableShapesOnNets(shapes, other, nets) ==
    AddShapes(shapes, other, LAMBDA s : s.is_connectable /\ s.net \in nets)
AddConnectableShapesNotOnNets(shapes, other, nets) ==
    AddShapes(shapes, other, LAMBDA s : s.is_connectable /\ s.net \notin nets)

Consume(shapes, other) == [kind \in Kinds |-> shapes[kind] \o other[kind]]

\* Every shape changed, or only its form by kind.
Each(shapes, Change(_)) == [kind \in Kinds |-> [i \in DOMAIN shapes[kind] |-> Change(shapes[kind][i])]]
EachForm(shapes, Box(_), Outline(_), Wire(_)) ==
    [kind \in Kinds |-> [i \in DOMAIN shapes[kind] |->
        [shapes[kind][i] EXCEPT !.form = CASE kind = "polygons" -> Outline(@)
                                           [] kind = "poly_lines" -> Wire(@)
                                           [] OTHER -> Box(@)]]]

MirrorShapesY(shapes) == EachForm(shapes, MirrorRectangleY, MirrorPolygonY, MirrorPolyLineY)
MirrorShapesX(shapes) == EachForm(shapes, MirrorRectangleX, MirrorPolygonX, MirrorPolyLineX)
TranslateShapes(shapes, offset) ==
    EachForm(shapes, LAMBDA b : TranslateRectangle(b, offset), LAMBDA o : TranslatePolygon(o, offset),
             LAMBDA w : TranslatePolyLine(w, offset))

\* Poly-lines do not turn.
RotateShapes(shapes, turns) ==
    EachForm(shapes, LAMBDA b : RotateRectangle(b, turns), LAMBDA o : RotatePolygon(o, turns), LAMBDA w : w)

\* The bounds of a point and of boxes, by the lower left and upper right corners of these.
BoundsFrom(start, boxes) ==
    Rectangle(Point(Min({start.x} \union {b.lower_left.x : b \in boxes}),
                    Min({start.y} \union {b.lower_left.y : b \in boxes})),
              Point(Max({start.x} \union {b.upper_right.x : b \in boxes}),
                    Max({start.y} \union {b.upper_right.y : b \in boxes})))

\* The boxes of all but poly-lines, in the order in which they are looked at. Without any
\* of these a collection has no bounds (the code ends on an empty optional).
BoxesOf(shapes) ==
    [i \in DOMAIN shapes.rectangles |-> shapes.rectangles[i].form]
        \o [i \in DOMAIN shapes.polygons |-> PolygonBoundingBox(shapes.polygons[i].form)]
        \o [i \in DOMAIN shapes.ports |-> shapes.ports[i].form]
ShapesBoundingBox(shapes) == BoundsFrom(BoxesOf(shapes)[1].lower_left, Range(BoxesOf(shapes)))
ResetShapesOrigin(shapes) == TranslateShapes(shapes, Negated(ShapesBoundingBox(shapes).lower_left))

\* Not in place: what is mirrored moves on by twice its size, wherever it was.
FlipShapesHorizontal(shapes) ==
    TranslateShapes(MirrorShapesY(shapes), Point(2 * Width(ShapesBoundingBox(shapes)), 0))
FlipShapesVertical(shapes) ==
    TranslateShapes(MirrorShapesX(shapes), Point(0, 2 * Height(ShapesBoundingBox(shapes))))

ShapesOverlap(shapes, box) ==
    \/ \E s \in Range(shapes.rectangles) \union Range(shapes.ports) : RectanglesOverlap(s.form, box)
    \/ \E s \in Range(shapes.polygons) : PolygonOverlapsRectangle(s.form, box)
ShapesIntersect(shapes, point, margin) ==
    \/ \E s \in Range(shapes.rectangles) \union Range(shapes.ports) :
           RectangleIntersectsWithMargin(s.form, point, margin)
    \/ \E s \in Range(shapes.polygons) : PolygonIntersects(s.form, point, margin)

\* A net gets a prefix unless it is empty or excepted.
PrefixNetNames(shapes, prefix, exceptions) ==
    Each(shapes, LAMBDA s : IF s.net = NoName \/ s.net \in exceptions THEN s
                            ELSE [s EXCEPT !.net = prefix \o @])

Kept(shapes, Keep(_)) == [kind \in Kinds |-> SelectSeq(shapes[kind], Keep)]
KeepOnlyNets(shapes, nets) == Kept(shapes, LAMBDA s : s.net \in nets)
RemoveNets(shapes, nets) == Kept(shapes, LAMBDA s : s.net \notin nets)
KeepOnlyLayers(shapes, layers) == Kept(shapes, LAMBDA s : s.layer \in layers)

\* The connectable shapes but poly-lines, added to collections by net and layer.
CopyConnectables(shapes, by_net_and_layer) ==
    LET Keys(kind) == {<<s.net, s.layer>> : s \in {t \in Range(shapes[kind]) : t.is_connectable}}
        Collection(key) == IF key \in DOMAIN by_net_and_layer THEN by_net_and_layer[key] ELSE Nothing
    IN  [key \in DOMAIN by_net_and_layer \union UNION {Keys(kind) : kind \in Kinds \ {"poly_lines"}} |->
            Consume(Collection(key),
                    Kept([shapes EXCEPT !.poly_lines = <<>>],
                             LAMBDA s : s.is_connectable /\ <<s.net, s.layer>> = key))]

\* What is exported of a collection: rectangles and polygons that are pins, that are not,
\* or both; in external units, which drop the rest.
ToExternalUnits(n) == Truncated(n, UnitsPerExternal)
ExternalPoint(p) == Point(ToExternalUnits(p.x), ToExternalUnits(p.y))
ToVLSIRRectangle(s) ==
    [lower_left |-> ExternalPoint(s.form.lower_left), width |-> ToExternalUnits(Width(s.form)),
     height |-> ToExternalUnits(Height(s.form)), net |-> s.net]
ToVLSIRPolygon(vertices, net) ==
    [vertices |-> [i \in DOMAIN vertices |-> ExternalPoint(vertices[i])], net |-> net]
ToVLSIRLayerShapes(shapes, include_non_pins, include_pins) ==
    LET Included(s) == IF s.is_connectable THEN include_pins ELSE include_non_pins
        of == Kept(shapes, Included)
    IN  [rectangles |-> [i \in DOMAIN of.rectangles |-> ToVLSIRRectangle(of.rectangles[i])],
         polygons |-> [i \in DOMAIN of.polygons |-> ToVLSIRPolygon(of.polygons[i].form, of.polygons[i].net)]]

\* A group is bounded by all that is added to it but poly-lines.
GroupBoundingBox(group) == AccumulatedOver(BoxesOf(group))

-----------------------------------------------------------------------------
(* Instances. Where one reads the layout it instantiates, that layout's box, *)
(* tiling bounds, ports or shapes are parameters. Ports are generated when   *)
(* they are first asked for, and kept.                                       *)

Instance(name, template, lower_left) ==
    [name |-> name, template |-> template, lower_left |-> lower_left, reflect_vertical |-> FALSE,
     rotation |-> 0, ports_generated |-> FALSE, instance_ports |-> <<>>]
CopyOfInstance(other) == [other EXCEPT !.ports_generated = FALSE, !.instance_ports = <<>>]

\* These make it generate its ports anew.
SetName(i, name) == [i EXCEPT !.name = name, !.ports_generated = FALSE]
SetLowerLeft(i, lower_left) == [i EXCEPT !.lower_left = lower_left, !.ports_generated = FALSE]
SetReflectVertical(i, reflect) == [i EXCEPT !.reflect_vertical = reflect, !.ports_generated = FALSE]
SetRotation(i, turns) == [i EXCEPT !.rotation = turns, !.ports_generated = FALSE]

\* These do not: ports that are there already stay where they are.
MirrorInstanceX(i) == [i EXCEPT !.reflect_vertical = ~@]
MirrorInstanceY(i) == MirrorInstanceX([i EXCEPT !.rotation = (@ + 2) % 4])
TranslateInstance(i, offset) == [i EXCEPT !.lower_left = Plus(@, offset)]
ResetInstanceOrigin(i) == [i EXCEPT !.lower_left = Origin]
AlignPoints(i, our_point, align_to) == TranslateInstance(i, Minus(align_to, our_point))

\* Not in place: the origin is mirrored in both axes, whichever way the instance flips.
FlipInstanceHorizontal(i, template_box) ==
    [MirrorInstanceY(i) EXCEPT !.lower_left = Minus(Negated(@), Point(Width(template_box), 0))]
FlipInstanceVertical(i, template_box) ==
    [MirrorInstanceX(i) EXCEPT !.lower_left = Minus(Negated(@), Point(0, Height(template_box)))]

\* What an instance shows of a box of its template: rotated, reflected, then moved.
Reflected(i, box) == IF i.reflect_vertical THEN MirrorRectangleX(box) ELSE box
InstanceBoundingBox(i, template_box) ==
    TranslateRectangle(Reflected(i, BoundingBoxIfRotated(template_box, Origin, i.rotation)), i.lower_left)
InstanceTilingBounds(i, template_bounds) ==
    LET transformed == Reflected(i, RotateRectangle(template_bounds, i.rotation))
    IN  MoveLowerLeftTo(transformed, Plus(i.lower_left, transformed.lower_left))
MoveTilingLowerLeft(i, new_lower_left, template_bounds) ==
    SetLowerLeft(i, Minus(new_lower_left,
                          Minus(InstanceTilingBounds(i, template_bounds).lower_left, i.lower_left)))

\* And of its shapes and points: these are not reflected.
InstancePoint(i, point) == Plus(RotatePoint(point, i.rotation), i.lower_left)
InstanceShapes(i, shapes, no_prefix) ==
    PrefixNetNames(TranslateShapes(RotateShapes(shapes, i.rotation), i.lower_left), i.name, no_prefix)

\* In a set of ports no two have the same lower left corner.
AddToPortSet(ports, port) ==
    IF \E q \in ports : q.form.lower_left = port.form.lower_left THEN ports ELSE ports \union {port}
PortSet(ports) == FoldLeft(AddToPortSet, {}, ports)
InPortOrder(ports) ==
    SetToSortSeq(ports, LAMBDA p, q : CompareXThenY(p.form.lower_left, q.form.lower_left))

\* The ports turn the other way than the bounds do, and are not reflected.
InstancePort(i, port) ==
    Port(TranslateRectangle(BoundingBoxIfRotated(port.form, Origin, (4 - i.rotation) % 4), i.lower_left),
         port.layer, i.name \o port.net)
GeneratePorts(i, template_ports) ==
    LET ports == [k \in DOMAIN InPortOrder(template_ports) |-> InstancePort(i, InPortOrder(template_ports)[k])]
    IN  [i EXCEPT !.ports_generated = TRUE,
                  !.instance_ports = [net \in {p.net : p \in Range(ports)} |->
                                         PortSet(SelectSeq(ports, LAMBDA p : p.net = net))]]
WithPorts(i, template_ports) == IF i.ports_generated THEN i ELSE GeneratePorts(i, template_ports)

\* The ports of an instance that has them, by the name of the template's port.
GetInstancePorts(i, net) ==
    LET name == i.name \o net
    IN  IF name \in DOMAIN i.instance_ports THEN i.instance_ports[name] ELSE {}
AllInstancePorts(i) == UNION Range(i.instance_ports)

\* The ports that may be taken as the nearest to a point, the furthest and the first; and
\* as one in between, of the ports named D, whatever name is asked for.
NearestPorts(i, point, net) ==
    {p \in GetInstancePorts(i, net) : \A q \in GetInstancePorts(i, net) :
         L2Squared(Centre(p.form), point) <= L2Squared(Centre(q.form), point)}
FurthestPorts(i, point, net) ==
    {p \in GetInstancePorts(i, net) : \A q \in GetInstancePorts(i, net) :
         L2Squared(Centre(p.form), point) >= L2Squared(Centre(q.form), point)}
FirstPort(i, net) ==
    {p \in GetInstancePorts(i, net) : \A q \in GetInstancePorts(i, net) \ {p} :
         CompareXThenY(p.form.lower_left, q.form.lower_left)}
MidwayPorts(i, landmark) ==
    LET ports == GetInstancePorts(i, <<"D">>)
        Without(n) == IF Cardinality(ports) > 1 THEN ports \ {n} ELSE ports
        Left(n, f) == IF Cardinality(Without(n)) > 1 THEN Without(n) \ {f} ELSE Without(n)
    IN  UNION {Left(n, f) : n \in NearestPorts(i, landmark, <<"D">>), f \in FurthestPorts(i, landmark, <<"D">>)}

-----------------------------------------------------------------------------
(* Layouts.                                                                  *)

EmptyLayout ==
    [shapes |-> <<>>, instances |-> <<>>, port_names |-> {}, named_points |-> <<>>, tiling_bounds |-> {},
     global_nets |-> {}, active_layer |-> 0, previous_layers |-> <<>>]

\* set_active_layer and RestoreLastActiveLayer, and both about an operation (ScopedLayer).
SetActiveLayer(l, layer) ==
    [l EXCEPT !.previous_layers = Append(@, l.active_layer), !.active_layer = layer]
RestoreLastActiveLayer(l) ==
    IF l.previous_layers = <<>> THEN l
    ELSE [l EXCEPT !.active_layer = Last(l.previous_layers), !.previous_layers = Front(@)]
OnLayer(l, layer, Do(_)) == RestoreLastActiveLayer(Do(SetActiveLayer(l, layer)))

Collection(l, layer) == IF layer \in DOMAIN l.shapes THEN l.shapes[layer] ELSE Nothing
ChangeLayer(l, layer, Change(_)) ==
    [l EXCEPT !.shapes = (layer :> Change(Collection(l, layer))) @@ @]
LayersOf(l) == SetToSortSeq(DOMAIN l.shapes, LAMBDA a, b : a < b)

\* Shapes go to the active layer, at the end.
AddShape(l, kind, s) ==
    ChangeLayer(l, l.active_layer,
                LAMBDA c : [c EXCEPT ![kind] = Append(@, [s EXCEPT !.layer = l.active_layer])])
AddRectangle(l, box, net) == AddShape(l, "rectangles", Shape(box, 0, net))
AddPolygon(l, s) == AddShape(l, "polygons", s)
AddSquare(l, centre, side, net) == AddRectangle(l, CentredAt(centre, side, side), net)
AddInstance(l, i) == [l EXCEPT !.instances = Append(@, CopyOfInstance(i))]

\* An inflated poly-line carries its net over.
AddPolyLineShape(l, w, net, is_connectable) ==
    AddPolygon(l, [Shape(InflatePolyLine(w), 0, net) EXCEPT !.is_connectable = is_connectable])

\* A port without a net ends the program. One is listed unless a listed port of its net
\* has its lower left corner.
ListedPorts(l, net) ==
    {p \in UNION {Range(l.shapes[layer].ports) : layer \in DOMAIN l.shapes} : p.listed /\ p.net = net}
AddPort(l, box, net, net_prefix) ==
    LET name == Prefixed(net_prefix, net)
        fresh == ~\E p \in ListedPorts(l, name) : p.form.lower_left = box.lower_left
    IN  [AddShape(l, "ports", [Port(box, 0, name) EXCEPT !.listed = fresh])
            EXCEPT !.port_names = @ \union {name}]
AddRectangleAsPort(l, box, net, net_prefix) == AddPort(AddRectangle(l, box, net), box, net, net_prefix)
AddSquareAsPort(l, centre, side, net, net_prefix) ==
    AddPort(AddSquare(l, centre, side, NoName), CentredAt(centre, side, side), net, net_prefix)
HasPort(l, net) == net \in l.port_names

\* The listed ports of the net go; those with the same corner on another layer, which
\* are not listed, stay. For a net with one listed port: the set that collects them is
\* made without its order, and a second port would be compared by a null function.
DeletePorts(l, net) ==
    [l EXCEPT !.port_names = @ \ {net},
              !.shapes = [layer \in DOMAIN @ |->
                  [@[layer] EXCEPT !.ports = SelectSeq(@, LAMBDA p : ~(p.listed /\ p.net = net))]]]

\* All the ports, by layer and in order: again one for each lower left corner.
Ports(l) == PortSet(FlattenSeq([k \in DOMAIN LayersOf(l) |-> l.shapes[LayersOf(l)[k]].ports]))

SavePoint(l, name, point) == [l EXCEPT !.named_points = (name :> point) @@ @]
EraseLayer(l, layer) == [l EXCEPT !.shapes = [k \in DOMAIN @ \ {layer} |-> @[k]]]

\* Everything in a layout changed: shapes, instances, points and tiling bounds.
Everywhere(l, OfShapes(_), OfInstance(_), OfPoint(_), OfBox(_)) ==
    [l EXCEPT !.shapes = [layer \in DOMAIN @ |-> OfShapes(@[layer])],
              !.instances = [k \in DOMAIN @ |-> OfInstance(@[k])],
              !.named_points = [name \in DOMAIN @ |-> OfPoint(@[name])],
              !.tiling_bounds = {OfBox(b) : b \in @}]

\* The origins of instances are mirrored in one axis and not in the other; instances do
\* not rotate with the layout.
MirrorLayoutY(l) ==
    Everywhere(l, MirrorShapesY, LAMBDA i : SetLowerLeft(MirrorInstanceY(i), MirrorPointY(i.lower_left)),
               MirrorPointY, MirrorRectangleY)
MirrorLayoutX(l) == Everywhere(l, MirrorShapesX, MirrorInstanceX, MirrorPointX, MirrorRectangleX)
TranslateLayout(l, offset) ==
    Everywhere(l, LAMBDA c : TranslateShapes(c, offset), LAMBDA i : TranslateInstance(i, offset),
               LAMBDA p : Plus(p, offset), LAMBDA b : TranslateRectangle(b, offset))
RotateLayout(l, turns) ==
    Everywhere(l, LAMBDA c : RotateShapes(c, turns), LAMBDA i : i,
               LAMBDA p : RotatePoint(p, turns), LAMBDA b : RotateRectangle(b, turns))
AlignPointTo(l, reference, target) == TranslateLayout(l, Minus(target, reference))

\* The bounds of all shapes and instances, from the first rectangle or polygon, or else
\* the first instance; ports alone do not count.
BoundsOfLayout(l, BoxOfInstance(_)) ==
    LET drawn == SelectSeq(LayersOf(l), LAMBDA layer : l.shapes[layer].rectangles # <<>>
                                                        \/ l.shapes[layer].polygons # <<>>)
        start == IF drawn # <<>> THEN BoxesOf(l.shapes[drawn[1]])[1].lower_left
                 ELSE BoxOfInstance(l.instances[1]).lower_left
    IN  IF drawn = <<>> /\ l.instances = <<>> THEN Rectangle(Origin, Origin)
        ELSE BoundsFrom(start, {ShapesBoundingBox(l.shapes[layer]) : layer \in DOMAIN l.shapes}
                                   \union {BoxOfInstance(i) : i \in Range(l.instances)})
LayoutBoundingBox(l, boxes) == BoundsOfLayout(l, LAMBDA i : InstanceBoundingBox(i, boxes[i.template]))
LayoutTilingBounds(l, bounds) ==
    IF l.tiling_bounds # {} THEN CHOOSE b \in l.tiling_bounds : TRUE
    ELSE BoundsOfLayout(l, LAMBDA i : InstanceTilingBounds(i, bounds[i.template]))

\* The same for all layouts of a library whose hierarchy is no higher than height.
BoundingBoxes(library, height) ==
    LET boxes[h \in Nat] == [c \in DOMAIN library |-> IF h = 0 THEN Rectangle(Origin, Origin)
                                                     ELSE LayoutBoundingBox(library[c], boxes[h - 1])]
    IN  boxes[height]
TilingBounds(library, height) ==
    LET bounds[h \in Nat] == [c \in DOMAIN library |-> IF h = 0 THEN Rectangle(Origin, Origin)
                                                      ELSE LayoutTilingBounds(library[c], bounds[h - 1])]
    IN  bounds[height]

ResetX(l, box) == TranslateLayout(l, Point(-box.lower_left.x, 0))
ResetY(l, box) == TranslateLayout(l, Point(0, -box.lower_left.y))
ResetOriginTo(l, box) == TranslateLayout(l, Negated(box.lower_left))
MoveTo(l, box, lower_left) == TranslateLayout(ResetOriginTo(l, box), lower_left)

\* In place only if the lower left corner of the layout is on the axis it is mirrored in.
FlipLayoutHorizontal(l, box) == TranslateLayout(MirrorLayoutY(l), Point(Width(box), 0))
FlipLayoutVertical(l, box) == TranslateLayout(MirrorLayoutX(l), Point(0, Height(box)))

\* Another layout's shapes, instances and points are taken over; its ports are not listed.
ConsumeLayout(l, other, prefix) ==
    LET Taken(c) == Each(IF prefix = NoName THEN c ELSE PrefixNetNames(c, prefix, {}),
                         LAMBDA s : [s EXCEPT !.listed = FALSE])
        Take(m, layer) == ChangeLayer([m EXCEPT !.active_layer = layer], layer,
                                      LAMBDA c : Consume(c, Taken(other.shapes[layer])))
        named == [name \in {Prefixed(prefix, n) : n \in DOMAIN other.named_points} |->
                     other.named_points[CHOOSE n \in DOMAIN other.named_points : Prefixed(prefix, n) = name]]
    IN  [FoldLeft(Take, l, LayersOf(other)) EXCEPT !.instances = @ \o other.instances,
                                                   !.named_points = named @@ @]

\* Or copied: rectangles, polygons and ports, with the prefix but on global nets; and
\* instances, whose names get the prefix.
AddLayout(l, other, prefix, include_ports) ==
    LET From(layer) == IF prefix = NoName THEN other.shapes[layer]
                       ELSE PrefixNetNames(AddAllShapes(Nothing, other.shapes[layer]), prefix, other.global_nets)
        Shapes(m, layer) ==
            LET with_boxes == FoldLeft(LAMBDA k, s : AddShape(k, "rectangles", s),
                                       [m EXCEPT !.active_layer = layer], From(layer).rectangles)
                with_polygons == FoldLeft(AddPolygon, with_boxes, From(layer).polygons)
            IN  IF ~include_ports THEN with_polygons
                ELSE FoldLeft(LAMBDA k, p : AddPort(k, p.form, p.net, NoName), with_polygons, From(layer).ports)
        Instances(m, i) ==
            AddInstance(m, IF prefix = NoName THEN i ELSE SetName(i, prefix \o i.name))
        named == ConsumeLayout(EmptyLayout, [EmptyLayout EXCEPT !.named_points = other.named_points], prefix)
    IN  [FoldLeft(Instances, FoldLeft(Shapes, l, LayersOf(other)), other.instances)
            EXCEPT !.named_points = named.named_points @@ @]

\* The layout an instance stands for: shapes, instances, points and ports of its template.
ApplyInstanceTransforms(i, l) ==
    LET rotated == RotateLayout(l, i.rotation)
    IN  TranslateLayout(IF i.reflect_vertical THEN MirrorLayoutX(rotated) ELSE rotated, i.lower_left)

\* Instances are replaced by what is in them, one level deep, and the tiling bounds grow to
\* hold theirs. They are taken by their addresses: in any order.
Flatten(l, library, bounds, add_prefixes, order) ==
    LET Staging(i) ==
            ApplyInstanceTransforms(i, AddLayout(EmptyLayout, library[i.template],
                                                 IF add_prefixes THEN i.name ELSE NoName, TRUE))
        Replace(m, k) ==
            LET i == l.instances[k]
                grown == ExpandAccumulate(InstanceTilingBounds(i, bounds[i.template]), m.tiling_bounds)
            IN  AddLayout([m EXCEPT !.tiling_bounds = grown], Staging(i), NoName, TRUE)
    IN  [FoldLeft(Replace, l, order) EXCEPT !.instances = SubSeq(@, Len(l.instances) + 1, Len(@))]

\* The templates of a layout's instances, and theirs, lose a layer, wherever else they are used.
RemoveLayerFromChildTemplates(l, library, layer, height) ==
    LET Children(c) == {i.template : i \in Range(library[c].instances)}
        below[h \in Nat] == IF h = 0 THEN {i.template : i \in Range(l.instances)}
                            ELSE below[h - 1] \union UNION {Children(c) : c \in below[h - 1]}
    IN  [c \in DOMAIN library |-> IF c \in below[height] THEN EraseLayer(library[c], layer) ELSE library[c]]

-----------------------------------------------------------------------------
(* Shapes copied out of a hierarchy. A depth of none is one that the hierarchy *)
(* does not reach; nets get the name of each instance they come out of.        *)

WithInstances(shapes, l, From(_)) == FoldLeft(LAMBDA c, i : AddAllShapes(c, From(i)), shapes, l.instances)
OnAllLayers(l, shapes, Add(_, _)) ==
    FoldLeft(LAMBDA c, layer : Add(c, l.shapes[layer]), shapes, LayersOf(l))

CopyShapesOnLayer(library, layer, height) ==
    LET copied[h \in Nat] ==
            [c \in DOMAIN library |->
                LET own == AddAllShapes(Nothing, Collection(library[c], layer))
                IN  IF h = 0 THEN own
                    ELSE WithInstances(own, library[c],
                                       LAMBDA i : InstanceShapes(i, copied[h - 1][i.template], {}))]
    IN  copied[height]

\* Those that are not connectable, but below a depth all of them.
CopyNonConnectableShapesOnLayer(library, layer, height, force_below_depth) ==
    LET Own(c) == AddNonConnectableShapes(Nothing, Collection(library[c], layer))
        all == CopyShapesOnLayer(library, layer, height)
        copied[d \in Nat] ==
            [c \in DOMAIN library |->
                WithInstances(Own(c), library[c],
                              LAMBDA i : InstanceShapes(i, IF d = 0 THEN all[i.template]
                                                           ELSE copied[d - 1][i.template], {}))]
    IN  IF force_below_depth = {} THEN copied[height] ELSE copied[CHOOSE d \in force_below_depth : TRUE]

CopyAllShapes(library, no_prefix, max_depth) ==
    LET copied[d \in Nat] ==
            [c \in DOMAIN library |->
                LET own == OnAllLayers(library[c], Nothing, AddAllShapes)
                IN  IF d = 0 THEN own
                    ELSE WithInstances(own, library[c],
                                       LAMBDA i : InstanceShapes(i, copied[d - 1][i.template], no_prefix))]
    IN  copied[max_depth]

\* The connectable shapes of a layout and of its instances' hierarchies; at depth 0 not of
\* the instances, unless all connectable shapes are asked for.
CopyConnectable(l, library, max_depth, no_prefix, Add(_, _), at_zero) ==
    LET below == CopyAllShapes(library, no_prefix, IF max_depth = 0 THEN 0 ELSE max_depth - 1)
        FromInstance(c, i) == Add(c, InstanceShapes(i, below[i.template], no_prefix))
        own == OnAllLayers(l, Nothing, Add)
    IN  IF max_depth = 0 /\ ~at_zero THEN own ELSE FoldLeft(FromInstance, own, l.instances)
CopyConnectableShapesNotOnNets(l, library, nets, max_depth) ==
    CopyConnectable(l, library, max_depth, {}, LAMBDA c, d : AddConnectableShapesNotOnNets(c, d, nets), FALSE)
CopyConnectableShapesOnNets(l, library, nets, max_depth) ==
    CopyConnectable(l, library, max_depth, {}, LAMBDA c, d : AddConnectableShapesOnNets(c, d, nets), FALSE)
CopyConnectableShapes(l, library, max_depth) ==
    CopyConnectable(l, library, max_depth, l.global_nets, AddConnectableShapes, TRUE)

-----------------------------------------------------------------------------
(* Ports of instances, and export.                                           *)

\* One port for each lower left corner, whichever comes first.
PortChoices(ports) ==
    {chosen \in SUBSET ports :
        /\ \A p \in ports : \E q \in chosen : q.form.lower_left = p.form.lower_left
        /\ \A p, q \in chosen : p.form.lower_left = q.form.lower_left => p = q}
GetAllPorts(l) == PortChoices(UNION {AllInstancePorts(i) : i \in Range(l.instances)})

\* Ports that have been generated, except those of a name, which is the instance's too.
GetAllPortsExceptNamed(l, named) ==
    PortChoices({p \in UNION {AllInstancePorts(i) : i \in Range(l.instances)} : p.net # named})

\* The instance and the ports at the ends of an edge. Both ends set the first instance and
\* neither the second, and it takes one instance that is at both ends.
ResolveEdgeSpec(l, from, to) ==
    LET n == Len(l.instances)
        Extract(i, endpoint) ==
            IF i.name # endpoint.instance_name THEN <<>>
            ELSE FlattenSeq([k \in DOMAIN endpoint.port_names |->
                                InPortOrder(GetInstancePorts(i, endpoint.port_names[k]))])
        Both(k) == Extract(l.instances[k], from) # <<>> /\ Extract(l.instances[k], to) # <<>>
        tried == SelectSeq([k \in 1..n |-> k], LAMBDA k : \A j \in 1..(k - 1) : ~Both(j))
        Gather(endpoint) == FlattenSeq([k \in DOMAIN tried |-> Extract(l.instances[k], endpoint)])
        named == {k \in Range(tried) : l.instances[k].name \in {from.instance_name, to.instance_name}}
    IN  [found |-> \E k \in 1..n : Both(k),
         from |-> IF named = {} THEN {} ELSE {Max(named)}, to |-> {},
         from_ports |-> Gather(from), to_ports |-> Gather(to)]

\* The outline, and on one layer what is not connectable and what is, by net.
ToVLSIRAbstract(l, bounds, li) ==
    LET box == LayoutTilingBounds(l, bounds)
        shapes == Collection(l, li)
        pins == CopyConnectables(shapes, <<>>)
        obstructions == ToVLSIRLayerShapes(shapes, TRUE, FALSE)
    IN  [outline |-> ToVLSIRPolygon(<<box.lower_left, UpperLeft(box), box.upper_right, LowerRight(box)>>, NoName),
         blockages |-> IF obstructions.rectangles \o obstructions.polygons = <<>> THEN {} ELSE {obstructions},
         ports |-> [key \in DOMAIN pins |-> ToVLSIRLayerShapes(pins[key], FALSE, TRUE)]]

\* Degrees counter-clockwise go into a field of degrees clockwise, and annotations keep
\* internal units.
ToVLSIRLayout(l) ==
    [shapes |-> [layer \in DOMAIN l.shapes |-> ToVLSIRLayerShapes(l.shapes[layer], TRUE, TRUE)],
     instances |-> [k \in DOMAIN l.instances |->
                       [name |-> l.instances[k].name, cell |-> l.instances[k].template,
                        origin |-> ExternalPoint(l.instances[k].lower_left),
                        reflect_vert |-> l.instances[k].reflect_vertical,
                        rotation_clockwise |-> l.instances[k].rotation]],
     annotations |-> l.named_points]

-----------------------------------------------------------------------------
(* Drawing vias, pins and wires.                                             *)

ViaSide(layer) == Max({Rules[layer].via_width, Rules[layer].via_height})
TypicalViaEncap(layer, via_layer) ==
    LET along == ViaSide(via_layer) + 2 * ViaRules[<<layer, via_layer>>].via_overhang
        wide == ViaSide(via_layer) + 2 * ViaRules[<<layer, via_layer>>].via_overhang_wide
    IN  [length |-> Max({along, wide}), width |-> Min({along, wide})]
TypicalViaEncapBetween(bottom_via_layer, layer, top_via_layer) ==
    LET top == TypicalViaEncap(layer, top_via_layer)
        bottom == TypicalViaEncap(layer, bottom_via_layer)
    IN  [length |-> Max({top.length, bottom.length}), width |-> Max({top.width, bottom.width})]

ValueOr(optional, default) == IF optional = {} THEN default ELSE CHOOSE v \in optional : TRUE

MakeVia(l, layer, centre, net) ==
    OnLayer(l, layer, LAMBDA m : AddSquare(m, centre, Rules[layer].via_width, ValueOr(net, NoName)))

MakeViaEncap(l, layer, via_layer, other_via_layer, centre, width, height) ==
    LET encap == IF other_via_layer = {} THEN TypicalViaEncap(layer, via_layer)
                 ELSE TypicalViaEncapBetween(ValueOr(other_via_layer, via_layer), layer, via_layer)
        box == CentredAt(centre, ValueOr(width, encap.length), ValueOr(height, encap.width))
    IN  OnLayer(l, layer, LAMBDA m : AddRectangle(m, box, NoName))

\* As many vias as fit between two points, evenly; the points may be the centres of the
\* first and the last.
LengthOf(line) == L1Distance(line.start, line.end)
ViaCentres(layer, start, end, assume_centres) ==
    LET side == ViaSide(layer)
        given == Line(start, end)
        axis == IF ~assume_centres THEN given
                ELSE Line(PointOnLineAtDistance(given, start, -(side \div 2)),
                          PointOnLineAtDistance(given, start, LengthOf(given) + side \div 2))
        n == LengthOf(axis) \div (side + Rules[layer].min_separation)
        spacing == (LengthOf(axis) - n * side) \div n
    IN  [k \in 1..n |-> PointOnLineAtDistance(axis, axis.start,
                            spacing \div 2 + side \div 2 + (k - 1) * (side + spacing))]
MakeVias(l, layer, centres, net) == FoldLeft(LAMBDA m, p : MakeVia(m, layer, p, net), l, centres)
DistributeVias(l, layer, start, end, net, assume_centres) ==
    MakeVias(l, layer, ViaCentres(layer, start, end, assume_centres), net)

\* Vias at a pitch, from half of what it leaves on.
StampVias(l, layer, start, end, pitch, net) ==
    LET side == ViaSide(layer)
        axis == Line(start, end)
        first == Truncated(pitch - side, 2)
        n == Cardinality({k \in 0..LengthOf(axis) : first + k * pitch + side <= LengthOf(axis)})
    IN  MakeVias(l, layer, [k \in 1..n |-> PointOnLineAtDistance(axis, start,
                                               first + (k - 1) * pitch + side \div 2)], net)

\* A pin is a port and a rectangle, as wide as a via of its layer; a port may be had alone,
\* on the active layer whatever layer it was made for.
PinBox(centre, side) == RectangleOfSize(Minus(centre, Point(side \div 2, side \div 2)), side, side)
MakePin(l, net, centre, layer) ==
    LET Draw(m) == AddShape(AddPort(m, PinBox(centre, ViaSide(layer)), net, NoName), "rectangles",
                            Port(PinBox(centre, ViaSide(layer)), layer, net))
    IN  OnLayer(l, layer, Draw)
MakePort(l, net, centre, layer) ==
    AddPort(l, PinBox(centre, IF layer = {} THEN 100 ELSE ViaSide(ValueOr(layer, 0))), net, NoName)

Wire(points, width, min_separation) ==
    [SetWidth(FoldLeft(LAMBDA w, p : AddSegment(w, p, 0), PolyLine(points[1], <<>>), Tail(points)), width)
        EXCEPT !.min_separation = {min_separation}]

\* For each height the connection closest to the spine, the first of them; from the lowest.
SpineConnections(connections, spine_x) ==
    LET Distance(k) == Magnitude(connections[k].x - spine_x)
        kept == {k \in DOMAIN connections : \A j \in DOMAIN connections :
                    connections[j].y = connections[k].y
                        => Distance(k) < Distance(j) \/ (Distance(k) = Distance(j) /\ k <= j)}
    IN  SetToSortSeq({connections[k] : k \in kept}, CompareYThenX)

\* A vertical wire, and one from it to each connection that is not on it, with vias on it.
\* Nothing is drawn for less than two.
MakeVerticalSpineWithFingers(l, spine_layer, finger_layer, net, connections, encap_at_finger, spine_x, spine_width) ==
    LET points == SpineConnections(connections, spine_x)
        via_layer == ViaLayer[<<spine_layer, finger_layer>>]
        Bulge(layer) == [width |-> 2 * ViaRules[<<layer, via_layer>>].via_overhang_wide + ViaSide(via_layer),
                         length |-> 2 * ViaRules[<<layer, via_layer>>].via_overhang + ViaSide(via_layer)]
        OnSpine(p) == Point(spine_x, p.y)
        line == Wire(<<OnSpine(points[1]), OnSpine(Last(points))>>,
                     Max({Rules[spine_layer].min_width, spine_width}), Rules[spine_layer].min_separation)
        bulged == FoldLeft(LAMBDA w, p : InsertBulge(w, OnSpine(p), Bulge(spine_layer).width, Bulge(spine_layer).length, {}),
                           line, points)
        Finger(p) ==
            LET plain == Wire(<<p, OnSpine(p)>>, Rules[finger_layer].min_width, Rules[finger_layer].min_separation)
                at_spine == InsertBulge(plain, OnSpine(p), Bulge(finger_layer).width, Bulge(finger_layer).length, {})
            IN  FoldLeft(LAMBDA w, e : InsertBulge(w, p, e.width, e.length, {}), at_spine,
                         SetToSeq({TypicalViaEncap(finger_layer, e) : e \in encap_at_finger}))
        Encap(m, p) == AddRectangle(m, CentredAt(p, Bulge(finger_layer).length, Bulge(finger_layer).width), net)
        Connect(m, p) ==
            IF p.x = spine_x
            THEN OnLayer(MakeVia(m, via_layer, p, {net}), finger_layer, LAMBDA k : Encap(k, p))
            ELSE MakeVia(OnLayer(m, finger_layer, LAMBDA k : AddPolyLineShape(k, Finger(p), net, FALSE)),
                         via_layer, OnSpine(p), {net})
    IN  IF Len(points) < 2 THEN l
        ELSE OnLayer(FoldLeft(Connect, l, points), spine_layer,
                     LAMBDA k : AddPolyLineShape(k, bulged, net, FALSE))

\* Hops on two layers in turn with vias between them; a hop of no length is a pour of the
\* least area, without a via.
MakeAlternatingWire(l, points, first_layer, second_layer, net, is_connectable, add_start_encap, add_end_encap) ==
    LET n == Len(points)
        via_layer == ViaLayer[<<first_layer, second_layer>>]
        LayerOf(k) == IF k % 2 = 1 THEN first_layer ELSE second_layer
        EncapOf(k) == TypicalViaEncap(LayerOf(k), via_layer)
        Pour(k) ==
            LET width == Max({EncapOf(k).width, EncapOf(k).length})
                length == (Rules[LayerOf(k)].min_area + width - 1) \div width
            IN  [Shape(CentredAt(points[k], width, length), 0, ValueOr(net, NoName))
                    EXCEPT !.is_connectable = is_connectable]
        Bulged(w, k, p) == InsertBulge(w, p, EncapOf(k).width, EncapOf(k).length, {})
        HopWire(k) ==
            LET plain == Wire(<<points[k], points[k + 1]>>, Rules[LayerOf(k)].min_width, Rules[LayerOf(k)].min_separation)
                begun == IF k > 1 \/ add_start_encap THEN Bulged(plain, k, points[k]) ELSE plain
            IN  IF k + 1 < n \/ add_end_encap THEN Bulged(begun, k, points[k + 1]) ELSE begun
        Draw(m, k) == IF points[k] = points[k + 1] THEN AddShape(m, "rectangles", Pour(k))
                      ELSE AddPolyLineShape(m, HopWire(k), ValueOr(net, NoName), is_connectable)
        Hop(m, k) ==
            LET drawn == OnLayer(m, LayerOf(k), LAMBDA j : Draw(j, k))
                via == points[k] # points[k + 1] /\ k + 1 < n
            IN  IF via THEN MakeVia(drawn, via_layer, points[k + 1], net) ELSE drawn
    IN  FoldLeft(Hop, l, [k \in 1..(n - 1) |-> k])

\* A wire with room for vias to other layers at some points, and these vias unless only
\* the pads are wanted. A via has a centre, layer, pad_only and angle.
MakeWire(l, points, wire_layer, vias, net, is_connectable) ==
    LET Between(v) == ViaLayer[<<v.layer, wire_layer>>]
        EncapOf(v) == TypicalViaEncap(wire_layer, Between(v))
        plain == Wire(points, Rules[wire_layer].min_width, Rules[wire_layer].min_separation)
        bulged == FoldLeft(LAMBDA w, v : InsertBulge(w, v.centre, EncapOf(v).width, EncapOf(v).length, v.angle),
                           plain, vias)
        with_vias == FoldLeft(LAMBDA m, v : IF v.pad_only THEN m ELSE MakeVia(m, Between(v), v.centre, {}), l, vias)
    IN  OnLayer(with_vias, wire_layer,
                LAMBDA m : AddPolyLineShape(m, bulged, ValueOr(net, NoName), is_connectable))

\* The same with vias to other layers at its ends.
MakeWireTo(l, points, wire_layer, start, end, net, is_connectable) ==
    LET At(point, ends) == SetToSeq({[centre |-> point, layer |-> e.layer, pad_only |-> e.pad_only,
                                      angle |-> e.angle] : e \in ends})
    IN  MakeWire(l, points, wire_layer, At(points[1], start) \o At(Last(points), end), net, is_connectable)

\* Gives up if a shape holds the point, and finds nothing otherwise.
FindEmptySpaceAround(point, layers, margin) == {}

====
