---- MODULE PolyLines ----
(***************************************************************************)
(* PolyLines: wires as a start and segments, each with an end and a width; *)
(* the bulges that make room for vias on them; what is done about notches; *)
(* and their inflation into polygons.                                      *)
(*                                                                         *)
(* Lines are along the axes, as AddSegment insists. Halves of lengths and  *)
(* widths are kept doubled, exactly; the code's doubles agree with them    *)
(* while lengths and widths are even. An optional value is a set.          *)
(***************************************************************************)
EXTENDS Geometry

LineSegment(end, width) == [end |-> end, width |-> width]

\* The fields of a poly-line: shape holds its layer, net and whether it is connectable.
PolyLine(start, segments) ==
    [start |-> start, segments |-> segments, overhang_start |-> 0, overhang_end |-> 0,
     min_separation |-> {}, enable_narrowing_extensions |-> FALSE, deferred_bulges |-> <<>>,
     shape |-> [layer |-> 0, net |-> "", is_connectable |-> FALSE]]

\* A copy keeps start, segments and overhangs, and nothing else.
CopyOf(other) ==
    [PolyLine(other.start, other.segments) EXCEPT !.overhang_start = other.overhang_start,
                                                  !.overhang_end = other.overhang_end]

Vertices(p) == <<p.start>> \o [i \in DOMAIN p.segments |-> p.segments[i].end]
SegmentStart(p, i) == IF i = 1 THEN p.start ELSE p.segments[i - 1].end
SegmentLine(p, i) == Line(SegmentStart(p, i), p.segments[i].end)
SetWidth(p, width) == [p EXCEPT !.segments = [i \in DOMAIN @ |-> LineSegment(@[i].end, width)]]

\* A repeated point is skipped; one off both axes ends the program, and is not added here.
AddSegment(p, to, width) ==
    IF to = Last(Vertices(p)) \/ ~ShareHorizontalOrVerticalAxis(to, Last(Vertices(p))) THEN p
    ELSE [p EXCEPT !.segments = Append(@, LineSegment(to, width))]

\* p with every point moved.
MovePoints(p, Move(_)) ==
    [p EXCEPT !.start = Move(@),
              !.segments = [i \in DOMAIN @ |-> LineSegment(Move(@[i].end), @[i].width)]]
MirrorPolyLineY(p) == MovePoints(p, MirrorPointY)
MirrorPolyLineX(p) == MovePoints(p, MirrorPointX)
TranslatePolyLine(p, offset) == MovePoints(p, LAMBDA q : Plus(q, offset))

\* The bounds of the centre line: widths do not count.
PolyLineBoundingBox(p) == BoundsOf(Range(Vertices(p)))
FlipPolyLineHorizontal(p) ==
    LET box == PolyLineBoundingBox(p)
    IN  MovePoints(p, LAMBDA q : Point(box.upper_right.x - (q.x - box.lower_left.x), q.y))
FlipPolyLineVertical(p) ==
    LET box == PolyLineBoundingBox(p)
    IN  MovePoints(p, LAMBDA q : Point(q.x, box.upper_right.y - (q.y - box.lower_left.y)))

\* The first segment that a point lies on, and its line.
SegmentsAt(p, point) ==
    {i \in DOMAIN p.segments : /\ PointIntersectsInBounds(SegmentLine(p, i), point)
                               /\ \A j \in 1..(i - 1) : ~PointIntersectsInBounds(SegmentLine(p, j), point)}
LineAtPoint(p, point) == {SegmentLine(p, i) : i \in SegmentsAt(p, point)}

\* The start or the end moves to a point beyond it. With more than one segment the last
\* line is taken from its end to its end, so it is a point that counts as vertical, and
\* how far it is from there is undefined: both outcomes are results.
ExtendToInclude(p, point) ==
    LET n == Len(p.segments)
        begin_line == SegmentLine(p, 1)
        end_line == Line(IF n > 1 THEN p.segments[n].end ELSE p.start, p.segments[n].end)
        at_start == [p EXCEPT !.start = point]
        at_end == [p EXCEPT !.segments[n].end = point]
    IN  IF LineAtPoint(p, point) # {} THEN {p}
        ELSE CASE ~LineIntersects(begin_line, point) /\ ~LineIntersects(end_line, point) -> {p}
               [] LineIntersects(begin_line, point) /\ ~LineIntersects(end_line, point) -> {at_start}
               [] ~LineIntersects(begin_line, point) /\ LineIntersects(end_line, point) -> {at_end}
               [] LineIntersects(begin_line, point) /\ LineIntersects(end_line, point) ->
                      IF n > 1 THEN {at_start, at_end}
                      ELSE {at_end}

-----------------------------------------------------------------------------
(* Tidying.                                                                 *)

Wider(segment, width) == LineSegment(segment.end, Max({segment.width, width}))
WidenLast(segments, width) ==
    [segments EXCEPT ![Len(segments)] = Wider(@, width)]

\* Segments of no length go, and leave their width to the one before; those at the start
\* leave it to none. (For a second one there the code writes to the end of its vector.)
ReplaceDuplicateEndPointsWithWidest(p) ==
    LET Step(s, segment) ==
            IF segment.end # s.last THEN [last |-> segment.end, segments |-> Append(s.segments, segment)]
            ELSE IF s.segments = <<>> THEN s
            ELSE [s EXCEPT !.segments = WidenLast(@, segment.width)]
    IN  [p EXCEPT !.segments = FoldLeft(Step, [last |-> p.start, segments |-> <<>>], @).segments]

\* Successive segments of one width along one infinite line become one, from the start
\* of the first to the end of the last.
RemoveRedundantSegments(p) ==
    LET Step(s, segment) ==
            LET line == Line(Last(s.segments).end, segment.end)
            IN  IF AreSameInfiniteLine(line, s.line) /\ segment.width = Last(s.segments).width
                THEN [line |-> line, segments |-> Append(Front(s.segments), segment)]
                ELSE [line |-> line, segments |-> Append(s.segments, segment)]
    IN  IF p.segments = <<>> THEN p
        ELSE [p EXCEPT !.segments =
                  FoldLeft(Step, [line |-> SegmentLine(p, 1), segments |-> <<p.segments[1]>>],
                           Tail(@)).segments]

\* A narrow piece between wider ones in a straight line goes if it is short.
RemoveNotchesInAStraightLine(p) ==
    LET n == Len(p.segments)
        Step(s, i) ==
            LET last_line == SegmentLine([p EXCEPT !.segments = s], Len(s))
                this_line == Line(Last(s).end, p.segments[i].end)
                next_line == Line(p.segments[i].end, p.segments[i + 1].end)
                notch == /\ AreSameInfiniteLine(last_line, this_line)
                         /\ AreSameInfiniteLine(next_line, this_line)
                         /\ p.segments[i].width < Last(s).width
                         /\ p.segments[i].width < p.segments[i + 1].width
                         /\ \E m \in p.min_separation : L1Distance(Last(s).end, p.segments[i].end) < m
            IN  IF notch THEN s ELSE Append(s, p.segments[i])
    IN  IF p.min_separation = {} \/ n < 3 THEN p
        ELSE [p EXCEPT !.segments = Append(FoldLeft(Step, <<@[1]>>, [k \in 1..(n - 2) |-> k + 1]), @[n])]

SegmentAsRectangle(p, i) == FromCentralAxis(SegmentStart(p, i), p.segments[i].end, p.segments[i].width)

\* What lies between two segments that come too near each other becomes as wide as the
\* wider of these.
RemoveNotchesAroundCorners(p) ==
    LET n == Len(p.segments)
        TooNear(box, other) ==
            \E a \in box, b \in other, m \in p.min_separation :
                LET d == ClosestDistanceSquared(a, b) IN d # 0 /\ d < Square(m)
        Fill(q, i, j) ==
            [q EXCEPT !.segments = [k \in 1..n |->
                 IF i < k /\ k < j THEN Wider(@[k], Max({@[i].width, @[j].width})) ELSE @[k]]]
        From(q, i) ==
            FoldLeft(LAMBDA r, j : IF TooNear(SegmentAsRectangle(q, i), SegmentAsRectangle(r, j))
                                   THEN Fill(r, i, j) ELSE r,
                     q, [k \in 1..(n - i - 1) |-> i + 1 + k])
    IN  IF p.min_separation = {} THEN p ELSE FoldLeft(From, p, [i \in 1..(n - 1) |-> i])

EnforceInvariants(p) ==
    RemoveNotchesAroundCorners(
        RemoveNotchesInAStraightLine(
            RemoveRedundantSegments(
                ReplaceDuplicateEndPointsWithWidest(p))))

-----------------------------------------------------------------------------
(* Bulges: a rectangle about a point on the line, of some width across the   *)
(* line and some length along it, that the inflated line will cover.         *)

HalfRounded(n) == (Magnitude(n) + 1) \div 2

AcrossLines(l, m) == AngleToLineCounterClockwise(l, m) % 2 = 1

\* How long a segment has to be to leave the bulge, given how far the bulge reaches
\* (twice) along and across the line that was hit; and how wide it has to be.
ComputeRequiredLengthAndWidth(intersected_line, current_line, on_axis, off_axis) ==
    IF AcrossLines(current_line, intersected_line)
    THEN [length |-> HalfRounded(off_axis), width |-> Magnitude(on_axis)]
    ELSE [length |-> HalfRounded(on_axis), width |-> Magnitude(off_axis)]

\* At a corner also half the width of the segment before has to be left.
ComputeRequiredLengthForLastSegmentWidth(widths, current_line, previous_line, required_length) ==
    IF widths = {} \/ ~AcrossLines(previous_line, current_line) THEN required_length
    ELSE Max({required_length} \union {HalfRounded(w) : w \in widths})

\* What both passes know as they go from segment to segment, out of the bulge.
BulgePass(p, point, width, length, line, current_length) ==
    [line |-> p, reference |-> point, current |-> line, length |-> current_length,
     on_axis |-> length, off_axis |-> width, previous_width |-> {}, done |-> FALSE]

\* What is left of the bulge beyond a segment.
Overflow(s, intersected_line) ==
    IF AcrossLines(s.current, intersected_line)
    THEN [s EXCEPT !.off_axis = @ - 2 * s.length]
    ELSE [s EXCEPT !.on_axis = @ - 2 * s.length]

SegmentsWith(p, segments) == [p EXCEPT !.segments = segments]
Widened(p, k, width) == [p EXCEPT !.segments[k] = Wider(@, width)]

\* Segments are widened until one leads out of the bulge; that one is cut in two if it is
\* not wide enough. The last segment is made longer.
InsertForwardBulgePoint(p, point, coaxial_width, coaxial_length, index, intersected_line) ==
    LET n == Len(p.segments)
        Step(s, k) ==
            LET segment == s.line.segments[k]
                need == ComputeRequiredLengthAndWidth(intersected_line, s.current, s.on_axis, s.off_axis)
                required_length == IF s.previous_width = {} THEN need.length
                                   ELSE ComputeRequiredLengthForLastSegmentWidth(
                                            s.previous_width, s.current, SegmentLine(s.line, k - 1), need.length)
                boundary == PointOnLineAtDistance(s.current, s.reference, required_length)
                widened == Widened(s.line, k, need.width)
                narrows == p.enable_narrowing_extensions /\ segment.width > need.width
                ended == IF narrows
                         THEN SegmentsWith(widened, Append(widened.segments, LineSegment(boundary, need.width)))
                         ELSE [widened EXCEPT !.segments[k].end = boundary]
                next == Line(segment.end, p.segments[k + 1].end)
            IN  CASE s.done -> s
                  [] ~s.done /\ s.length > required_length ->
                         [s EXCEPT !.done = TRUE,
                                   !.line = IF need.width <= segment.width THEN @
                                            ELSE SegmentsWith(@, InsertAt(@.segments, k,
                                                                 LineSegment(boundary, need.width)))]
                  [] ~s.done /\ s.length = required_length -> [s EXCEPT !.done = TRUE, !.line = widened]
                  [] ~s.done /\ s.length < required_length /\ k = n -> [s EXCEPT !.done = TRUE, !.line = ended]
                  [] ~s.done /\ s.length < required_length /\ k < n ->
                         [Overflow(s, intersected_line) EXCEPT
                             !.line = widened, !.reference = segment.end, !.current = next,
                             !.length = L1Distance(next.start, next.end), !.previous_width = {segment.width}]
        first == BulgePass(p, point, coaxial_width, coaxial_length, intersected_line,
                           L1Distance(point, p.segments[index].end))
    IN  FoldLeft(Step, first, [i \in 1..(n - index + 1) |-> index + i - 1]).line

\* The same towards the start. The segment that was hit may have been widened or cut
\* already; its width from before decides. The start moves if the line is too short.
InsertBackwardBulgePoint(p, point, coaxial_width, coaxial_length, index, intersected_line, previous_width) ==
    LET Step(s, k) ==
            LET original_width == IF k = index THEN previous_width ELSE s.line.segments[k].width
                need == ComputeRequiredLengthAndWidth(intersected_line, s.current, s.on_axis, s.off_axis)
                widened == Widened(s.line, k, need.width)
                required_length == IF s.previous_width = {} THEN need.length
                                   ELSE ComputeRequiredLengthForLastSegmentWidth(
                                            s.previous_width, s.current, SegmentLine(s.line, k + 1), need.length)
                boundary == PointOnLineAtDistance(s.current, s.reference, -required_length)
                narrows == p.enable_narrowing_extensions /\ original_width > need.width
                begun == [SegmentsWith(widened, (IF narrows THEN <<LineSegment(p.start, need.width)>> ELSE <<>>)
                                                \o widened.segments) EXCEPT !.start = boundary]
                before == SegmentLine(p, k - 1)
            IN  CASE s.done -> s
                  [] ~s.done /\ s.length > required_length ->
                         [s EXCEPT !.done = TRUE,
                                   !.line = IF need.width <= original_width THEN widened
                                            ELSE SegmentsWith(widened, InsertAt(widened.segments, k,
                                                                 LineSegment(boundary, original_width)))]
                  [] ~s.done /\ s.length = required_length -> [s EXCEPT !.done = TRUE, !.line = widened]
                  [] ~s.done /\ s.length < required_length /\ k = 1 -> [s EXCEPT !.done = TRUE, !.line = begun]
                  [] ~s.done /\ s.length < required_length /\ k > 1 ->
                         [Overflow(s, intersected_line) EXCEPT
                             !.line = widened, !.reference = before.end, !.current = before,
                             !.length = L1Distance(before.start, before.end), !.previous_width = {original_width}]
        first == BulgePass(p, point, coaxial_width, coaxial_length, intersected_line,
                           L1Distance(point, SegmentStart(p, index)))
    IN  FoldLeft(Step, first, [i \in 1..index |-> index - i + 1]).line

InsertBulgeInternal(p, point, coaxial_width, coaxial_length) ==
    IF SegmentsAt(p, point) = {} THEN p
    ELSE LET i == CHOOSE i \in SegmentsAt(p, point) : TRUE
             forward == InsertForwardBulgePoint(p, point, coaxial_width, coaxial_length, i, SegmentLine(p, i))
         IN  EnforceInvariants(InsertBackwardBulgePoint(forward, point, coaxial_width, coaxial_length, i,
                                                        SegmentLine(p, i), p.segments[i].width))

\* With an angle, width and length are across and along it, and change places where the
\* line is across it.
InsertBulge(p, point, width, length, angle) ==
    IF angle = {} THEN InsertBulgeInternal(p, point, width, length)
    ELSE IF \E l \in LineAtPoint(p, point), a \in angle : (AngleToHorizon(l) - a) % 2 = 1
    THEN InsertBulgeInternal(p, point, length, width)
    ELSE InsertBulgeInternal(p, point, width, length)

DeferredBulge(position, width, length, angle) ==
    [position |-> position, width |-> width, length |-> length, angle |-> angle]
InsertBulgeLater(p, point, width, length, angle) ==
    [p EXCEPT !.deferred_bulges = Append(@, DeferredBulge(point, width, length, angle))]
DeleteLastDeferredBulge(p) == [p EXCEPT !.deferred_bulges = Front(@)]
CancelDeferredBulge(p, position) ==
    [p EXCEPT !.deferred_bulges = SelectSeq(@, LAMBDA b : b.position # position)]
ApplyDeferredBulges(p) ==
    [FoldLeft(LAMBDA q, b : InsertBulge(q, b.position, b.width, b.length, b.angle), p, p.deferred_bulges)
        EXCEPT !.deferred_bulges = <<>>]

-----------------------------------------------------------------------------
(* Inflation.                                                               *)

InflateVia(centre, width, height) ==
    RectangleOfSize(Minus(centre, Point(width \div 2, height \div 2)), width, height)

InflatePoint(point, horizontal, vertical) ==
    <<Plus(point, Point(-horizontal, -vertical)), Plus(point, Point(-horizontal, vertical)),
      Plus(point, Point(horizontal, vertical)), Plus(point, Point(horizontal, -vertical))>>

\* The vertices along one side: its start, where successive lines meet, its end.
AppendSide(polygon, lines) ==
    FoldLeft(AddVertex, polygon, <<lines[1].start>> \o AppendIntersections(lines, FALSE)
                                                    \o <<Last(lines).end>>)

\* Segments without a width have that of the default. The overhangs make the lines of the
\* way there longer, and not those of the way back.
HalfWidth(p, i) == (IF p.segments[i].width = 0 THEN 100 ELSE p.segments[i].width) \div 2
ForwardLine(p, i) ==
    LET line == SegmentLine(p, i)
        begun == IF i = 1 /\ p.overhang_start > 0 THEN StretchStart(line, p.overhang_start) ELSE line
    IN  IF i = Len(p.segments) /\ p.overhang_end > 0 THEN StretchEnd(begun, p.overhang_end) ELSE begun
ForwardLines(p) == [i \in DOMAIN p.segments |-> Shifted(ForwardLine(p, i), HalfWidth(p, i), 0, 0)]
ReverseLines(p) ==
    LET n == Len(p.segments)
    IN  [i \in 1..n |-> Shifted(Reversed(SegmentLine(p, n - i + 1)), HalfWidth(p, n - i + 1), 0, 0)]
InflatePolyLine(p) ==
    IF p.segments = <<>>
    THEN LET half_side == Max({p.overhang_start, p.overhang_end})
         IN  InflatePoint(p.start, half_side, half_side)
    ELSE AppendSide(AppendSide(<<>>, ForwardLines(p)), ReverseLines(p))

\* A cell of poly-lines and vias, drawn: polygons on the layers of their lines, vias, and
\* a pin over each via that has a port on top and a pin layer above. The sizes of a via
\* and the layers come from the routing grid.
Inflate(cell) ==
    [polygons |-> [i \in DOMAIN cell.poly_lines |->
                       [layer |-> cell.poly_lines[i].shape.layer,
                        vertices |-> InflatePolyLine(cell.poly_lines[i])]],
     rectangles |-> [i \in DOMAIN cell.vias |->
                         [layer |-> cell.vias[i].layer,
                          box |-> InflateVia(cell.vias[i].centre, cell.vias[i].width, cell.vias[i].height)]],
     pins |-> UNION {{[layer |-> layer, net |-> net,
                       box |-> CentredAt(v.centre, Min({v.width, v.height}), Min({v.width, v.height}))] :
                          layer \in v.pin_layer, net \in v.port_on_top} : v \in Range(cell.vias)}]

\* Lines that go into a cell as copies.
AddPolyLine(cell, p) == [cell EXCEPT !.poly_lines = Append(@, CopyOf(p))]

\* The bounds of a cell: those of its first line and of all from the third on.
PolyLineCellBoundingBox(cell) ==
    LET n == Len(cell.poly_lines)
        Box(i) == PolyLineBoundingBox(cell.poly_lines[i])
    IN  IF n = 0 THEN Rectangle(Origin, Origin)
        ELSE FoldLeft(LAMBDA box, i : ExpandBounds(Box(i), box), Box(1), [k \in 1..Max({n - 2, 0}) |-> k + 2])

====
