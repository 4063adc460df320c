---- MODULE Geometry ----
(***************************************************************************)
(* Geometry: points, lines, rectangles, rounded rectangles and polygons.   *)
(*                                                                         *)
(* Coordinates are integers. Angles are quarter turns, as everything that  *)
(* is drawn is; where the code goes through a double the definition takes  *)
(* the exact quotient and then truncates or rounds as the code does, which *)
(* is the same for lines along the axes. A result that the code returns    *)
(* through pointers is a record; what it leaves alone there is Origin, the *)
(* value of a fresh point. Layers and nets of shapes are not here.         *)
(***************************************************************************)
EXTENDS Integers, SequencesExt

Magnitude(n) == IF n < 0 THEN -n ELSE n
Square(n) == n * n

\* Division of integers and conversion of doubles drop the fraction; llround
\* takes halves away from zero.
Truncated(n, d) ==
    LET q == Magnitude(n) \div Magnitude(d) IN IF (n < 0) = (d < 0) THEN q ELSE -q
Rounded(n, d) ==
    LET q == (2 * Magnitude(n) + Magnitude(d)) \div (2 * Magnitude(d))
    IN  IF (n < 0) = (d < 0) THEN q ELSE -q

-----------------------------------------------------------------------------
(* Points.                                                                  *)

Point(x, y) == [x |-> x, y |-> y]
Origin == Point(0, 0)

Plus(p, q) == Point(p.x + q.x, p.y + q.y)
Minus(p, q) == Point(p.x - q.x, p.y - q.y)
Negated(p) == Point(-p.x, -p.y)
Divided(p, divisor) == Point(Truncated(p.x, divisor), Truncated(p.y, divisor))
Scaled(p, n, d) == Point(Rounded(p.x * n, d), Rounded(p.y * n, d))

\* The order of points in sets and maps, and the other one that is used to sort.
CompareXThenY(p, q) == IF p.x = q.x THEN p.y < q.y ELSE p.x < q.x
CompareYThenX(p, q) == IF p.y = q.y THEN p.x < q.x ELSE p.y < q.y

ShareHorizontalOrVerticalAxis(p, q) == p.x = q.x \/ p.y = q.y
MidpointOf(p, q) == Divided(Plus(p, q), 2)
PickMinY(p, q) == IF p.y <= q.y THEN p ELSE q
PickMaxY(p, q) == IF p.y >= q.y THEN p ELSE q

MirrorPointY(p) == Point(-p.x, p.y)
MirrorPointX(p) == Point(p.x, -p.y)
Transpose(p) == Point(p.y, p.x)

\* Rotation by quarter turns counter-clockwise.
RotatePoint(p, turns) ==
    CASE turns % 4 = 0 -> p
      [] turns % 4 = 1 -> Point(-p.y, p.x)
      [] turns % 4 = 2 -> Point(-p.x, -p.y)
      [] turns % 4 = 3 -> Point(p.y, -p.x)

DotProduct(p, q) == p.x * q.x + p.y * q.y

\* The cross product of the vectors from a to b and from a to c; and the one of
\* two points as the code has it, which is not the product its comment names.
CrossProduct(a, b, c) == (b.x - a.x) * (c.y - a.y) - (b.y - a.y) * (c.x - a.x)
CrossProductOf(p, other) == p.x * other.y - p.y - other.x

L1Distance(p, q) == Magnitude(q.x - p.x) + Magnitude(q.y - p.y)
L2Squared(p, q) == Square(p.x - q.x) + Square(p.y - q.y)

UnitVector(turns) == RotatePoint(Point(1, 0), turns)
AddComponents(p, amount, turns) ==
    Point(p.x + amount * UnitVector(turns).x, p.y + amount * UnitVector(turns).y)
Component(p, turns) == DotProduct(UnitVector(turns), p)

\* The projection of a vector onto p.
Project(p, other) == Scaled(p, DotProduct(p, other), DotProduct(p, p))

\* The first of the points closest to target.
ClosestTo(points, target) ==
    LET Distance(i) == L2Squared(points[i], target)
    IN  points[CHOOSE i \in DOMAIN points : \A j \in DOMAIN points :
                  Distance(i) < Distance(j) \/ (Distance(i) = Distance(j) /\ i <= j)]

-----------------------------------------------------------------------------
(* Lines, from a start to an end, taken as segments or as infinite lines.   *)

Line(a, b) == [start |-> a, end |-> b]
Run(l) == l.end.x - l.start.x
Rise(l) == l.end.y - l.start.y
Along(l) == Minus(l.end, l.start)
Reversed(l) == Line(l.end, l.start)
IsVertical(l) == Run(l) = 0
PointsFormRectilinearLine(a, b) == ShareHorizontalOrVerticalAxis(a, b)

\* y = Gradient * x + Offset, with Gradient = Rise / Run and Offset = OffsetTimesRun / Run.
OffsetTimesRun(l) == l.end.y * Run(l) - Rise(l) * l.end.x
SameGradient(l, m) == Rise(l) * Run(m) = Rise(m) * Run(l)
SameOffset(l, m) == OffsetTimesRun(l) * Run(m) = OffsetTimesRun(m) * Run(l)
HeightAt(l, x) == Truncated(Rise(l) * x + OffsetTimesRun(l), Run(l))

AreSameInfiniteLine(l, m) ==
    IF IsVertical(l) \/ IsVertical(m)
    THEN IsVertical(l) /\ IsVertical(m) /\ l.start.x = m.start.x
    ELSE SameGradient(l, m) /\ SameOffset(l, m)

\* Where two infinite lines meet: nowhere, everywhere or at a point.
Intersect(l, m) ==
    LET Parallel == IF IsVertical(l) \/ IsVertical(m) THEN IsVertical(l) /\ IsVertical(m)
                    ELSE SameGradient(l, m)
        \* x = X / W; y = (Rise * X / W + OffsetTimesRun) / Run.
        W == Rise(m) * Run(l) - Rise(l) * Run(m)
        X == OffsetTimesRun(l) * Run(m) - OffsetTimesRun(m) * Run(l)
        At == IF IsVertical(l) THEN Point(l.end.x, HeightAt(m, l.end.x))
              ELSE IF IsVertical(m) THEN Point(m.end.x, HeightAt(l, m.end.x))
              ELSE Point(Truncated(X, W), Truncated(Rise(l) * X + OffsetTimesRun(l) * W, Run(l) * W))
    IN  IF Parallel
        THEN [hit |-> AreSameInfiniteLine(l, m), incident |-> AreSameInfiniteLine(l, m), point |-> Origin]
        ELSE [hit |-> TRUE, incident |-> FALSE, point |-> At]

\* Whether a point is on the infinite line, give or take less than one unit; and on
\* the segment.
LineIntersects(l, p) ==
    IF IsVertical(l) THEN p.x = l.start.x
    ELSE Magnitude(p.y * Run(l) - Rise(l) * p.x - OffsetTimesRun(l)) < Magnitude(Run(l))
WithinBounds(l, p) ==
    /\ Min({l.start.x, l.end.x}) <= p.x /\ p.x <= Max({l.start.x, l.end.x})
    /\ Min({l.start.y, l.end.y}) <= p.y /\ p.y <= Max({l.start.y, l.end.y})
PointIntersectsInBounds(l, p) == LineIntersects(l, p) /\ WithinBounds(l, p)

\* Whether the segment l meets the infinite line other. Lines that are incident do,
\* and then no point is named.
IntersectsInBounds(l, other, ignore_end, ignore_start) ==
    LET i == Intersect(l, other)
        inside == i.hit /\ ~i.incident /\ WithinBounds(l, i.point)
        at_start == inside /\ i.point = l.start
        at_end == inside /\ i.point = l.end /\ ~at_start
    IN  [hit |-> i.incident \/ (inside /\ ~(at_start /\ ignore_start) /\ ~(at_end /\ ignore_end)),
         incident |-> i.incident,
         is_start_or_end |-> (at_start /\ ~ignore_start) \/ (at_end /\ ~ignore_end),
         point |-> IF inside THEN i.point ELSE Origin]

\* How far along l a point is, times the square of the length of l.
ProjectionTimesSquare(l, p) == DotProduct(Minus(p, l.start), Along(l))

\* Whether two segments meet. The point is named only if they are incident; if these
\* run in opposite directions, some overlaps are missed.
IntersectsInMutualBounds(l, other) ==
    LET i == IntersectsInBounds(l, other, FALSE, FALSE)
        Start == ProjectionTimesSquare(l, other.start)
        End == ProjectionTimesSquare(l, other.end)
        overlap == Start <= ProjectionTimesSquare(l, l.end) /\ 0 <= End
    IN  IF i.incident
        THEN [hit |-> overlap, incident |-> TRUE,
              point |-> IF ~overlap THEN Origin ELSE IF 0 >= Start THEN l.start ELSE other.start]
        ELSE [hit |-> i.hit /\ PointIntersectsInBounds(other, i.point),
              incident |-> FALSE, point |-> Origin]

\* Quarter turns from the horizon to a line along an axis; a point counts as upwards.
AngleToHorizon(l) == IF Run(l) = 0 THEN (IF Rise(l) >= 0 THEN 1 ELSE 3)
                     ELSE IF Run(l) < 0 THEN 2 ELSE 0
AngleToLineCounterClockwise(l, other) == (AngleToHorizon(other) - AngleToHorizon(l)) % 4
AreAntiParallel(l, m) == AngleToLineCounterClockwise(l, m) = 2
LineDotProduct(l, m) == DotProduct(Along(l), Along(m))

ShiftStart(l, dx, dy) == Line(Plus(l.start, Point(dx, dy)), l.end)
ShiftEnd(l, dx, dy) == Line(l.start, Plus(l.end, Point(dx, dy)))
Shift(l, dx, dy) == Line(Plus(l.start, Point(dx, dy)), Plus(l.end, Point(dx, dy)))

\* The ends move outwards, in the direction of the line.
StretchStart(l, dl) == Line(AddComponents(l.start, -dl, AngleToHorizon(l)), l.end)
StretchEnd(l, dl) == Line(l.start, AddComponents(l.end, dl, AngleToHorizon(l)))

\* The line moved to its left by width. A positive extension moves the end outwards,
\* and the start inwards.
Shifted(source, width, extension_source, extension_end) ==
    LET u == UnitVector(AngleToHorizon(source))
        moved == Shift(source, -(u.y * width), u.x * width)
        begun == IF extension_source > 0
                 THEN ShiftStart(moved, u.x * extension_source, u.y * extension_source) ELSE moved
    IN  IF extension_end > 0 THEN ShiftEnd(begun, u.x * extension_end, u.y * extension_end) ELSE begun

PointOnLineAtDistance(l, start, distance) == AddComponents(start, distance, AngleToHorizon(l))

PointOnLineClosestTo(l, mark, treat_as_infinite) ==
    LET n == ProjectionTimesSquare(l, mark)
        d == LineDotProduct(l, l)
    IN  IF ~treat_as_infinite /\ n < 0 THEN l.start
        ELSE IF ~treat_as_infinite /\ n > d THEN l.end
        ELSE Plus(l.start, Scaled(Along(l), n, d))

\* The piece from the end of l to where it first meets one of the lines, among those
\* that it does not meet behind its start; the empty set if it meets none. (When all are
\* behind, the code reads a point it has not found.)
ExtendToNearestIntersection(l, intersectors) ==
    LET hits == SelectSeq([i \in DOMAIN intersectors |-> Intersect(l, intersectors[i])],
                          LAMBDA info : info.hit)
        At(i) == ProjectionTimesSquare(l, hits[i].point)
        ahead == {i \in DOMAIN hits : At(i) >= 0}
    IN  {Line(l.end, hits[i].point) : i \in {j \in ahead : \A k \in ahead :
                                               At(j) < At(k) \/ (At(j) = At(k) /\ j <= k)}}
GetExtensionsToBoundaries(l, boundaries) ==
    <<ExtendToNearestIntersection(l, boundaries), ExtendToNearestIntersection(Reversed(l), boundaries)>>

\* The part of an axis that both lines cover: the second and third of their four ends,
\* unless the first two are of the same line.
OverlappingProjectionOnAxis(l, m, turns) ==
    LET ends == <<Component(l.start, turns), Component(l.end, turns),
                  Component(m.start, turns), Component(m.end, turns)>>
        order == SetToSortSeq(1..4, LAMBDA i, j : ends[i] < ends[j] \/ (ends[i] = ends[j] /\ i < j))
        OfFirst(i) == order[i] <= 2
    IN  IF OfFirst(1) # OfFirst(2) /\ ends[order[2]] # ends[order[3]]
        THEN {<<ends[order[2]], ends[order[3]]>>} ELSE {}

\* (2 ^ 64 - 1) % n: the index before 0, computed in size_t, of a vector of n.
IndexBeforeZero(n) == (FoldLeft(LAMBDA r, i : (2 * r) % n, 1 % n, [i \in 1..64 |-> i]) + n - 1) % n

\* Where successive lines meet. After an about-face the lines around it are tried, and
\* the next line is skipped when it meets the one before.
AppendIntersections(lines, wraparound) ==
    LET n == Len(lines)
        LastLine(i) == lines[IF i = 1 THEN IndexBeforeZero(n) + 1 ELSE i - 1]
        Add(s, points) == [points |-> s.points \o points, skip |-> FALSE]
        Plain(s, i) ==
            LET at == Intersect(LastLine(i), lines[i])
            IN  IF ~at.hit THEN Add(s, <<LastLine(i).end, lines[i].start>>)
                ELSE IF at.incident THEN s ELSE Add(s, <<at.point>>)
        AboutFace(s, i) ==
            LET next == IntersectsInBounds(lines[i + 1], LastLine(i), FALSE, FALSE)
                before == IntersectsInMutualBounds(lines[i - 2], lines[i])
            IN  IF i < n /\ next.hit THEN [Add(s, <<next.point>>) EXCEPT !.skip = TRUE]
                ELSE IF i >= 3 /\ before.hit
                THEN [s EXCEPT !.points = Append(SubSeq(@, 1, Len(@) - 1), before.point)]
                ELSE Plain(s, i)
        Step(s, i) == IF s.skip THEN [s EXCEPT !.skip = FALSE]
                      ELSE IF AreAntiParallel(lines[i], LastLine(i)) THEN AboutFace(s, i)
                      ELSE Plain(s, i)
        first == IF wraparound THEN 1 ELSE 2
    IN  FoldLeft(Step, [points |-> <<>>, skip |-> FALSE],
                 [k \in 1..(n - first + 1) |-> k + first - 1]).points

-----------------------------------------------------------------------------
(* Rectangles.                                                              *)

Rectangle(lower_left, upper_right) == [lower_left |-> lower_left, upper_right |-> upper_right]
RectangleOfSize(lower_left, width, height) == Rectangle(lower_left, Plus(lower_left, Point(width, height)))
CentredAt(centre, width, height) ==
    RectangleOfSize(Minus(centre, Point(Truncated(width, 2), Truncated(height, 2))), width, height)

Width(r) == r.upper_right.x - r.lower_left.x
Height(r) == r.upper_right.y - r.lower_left.y
UpperLeft(r) == Point(r.lower_left.x, r.upper_right.y)
LowerRight(r) == Point(r.upper_right.x, r.lower_left.y)
Centre(r) == MidpointOf(r.lower_left, r.upper_right)
GetBoundaryLines(r) ==
    <<Line(r.lower_left, UpperLeft(r)), Line(UpperLeft(r), r.upper_right),
      Line(r.upper_right, LowerRight(r)), Line(LowerRight(r), r.lower_left)>>

\* The rectangle about a line along an axis, the odd unit of its width above or to
\* the right; the empty set for any other line.
FromCentralAxis(a, b, width) ==
    LET half == width \div 2
        low == Point(Min({a.x, b.x}), Min({a.y, b.y}))
        high == Point(Max({a.x, b.x}), Max({a.y, b.y}))
    IN  IF a.x = b.x
        THEN {Rectangle(Minus(low, Point(half, 0)), Plus(high, Point(width - half, 0)))}
        ELSE IF a.y = b.y
        THEN {Rectangle(Minus(low, Point(0, half)), Plus(high, Point(0, width - half)))}
        ELSE {}

RectangleIntersects(r, p) ==
    /\ r.lower_left.x <= p.x /\ p.x <= r.upper_right.x
    /\ r.lower_left.y <= p.y /\ p.y <= r.upper_right.y
RectanglesOverlap(r, other) ==
    /\ other.upper_right.x >= r.lower_left.x /\ other.upper_right.y >= r.lower_left.y
    /\ r.upper_right.x >= other.lower_left.x /\ r.upper_right.y >= other.lower_left.y
EntirelyContains(r, other) ==
    RectangleIntersects(r, other.lower_left) /\ RectangleIntersects(r, other.upper_right)
OverlapWith(r, other) ==
    IF RectanglesOverlap(r, other)
    THEN Rectangle(Point(Max({r.lower_left.x, other.lower_left.x}), Max({r.lower_left.y, other.lower_left.y})),
                   Point(Min({r.upper_right.x, other.upper_right.x}), Min({r.upper_right.y, other.upper_right.y})))
    ELSE Rectangle(Origin, Origin)

\* The square of the distance: of the corners that face each other, or along one axis.
ClosestDistanceSquared(r, other) ==
    LET top == r.upper_right.y < other.lower_left.y
        bottom == r.lower_left.y > other.upper_right.y
        right == r.upper_right.x < other.lower_left.x
        left == r.lower_left.x > other.upper_right.x
    IN  CASE RectanglesOverlap(r, other) -> 0
          [] top /\ right -> L2Squared(r.upper_right, other.lower_left)
          [] bottom /\ right -> L2Squared(LowerRight(r), UpperLeft(other))
          [] bottom /\ left -> L2Squared(r.lower_left, other.upper_right)
          [] top /\ left -> L2Squared(UpperLeft(r), LowerRight(other))
          [] right /\ ~top /\ ~bottom -> Square(r.upper_right.x - other.lower_left.x)
          [] bottom /\ ~left /\ ~right -> Square(r.lower_left.y - other.upper_right.y)
          [] left /\ ~top /\ ~bottom -> Square(r.lower_left.x - other.upper_right.x)
          [] top /\ ~left /\ ~right -> Square(r.upper_right.y - other.lower_left.y)

ExpandHorizontallyToCover(r, bounds) ==
    [r EXCEPT !.lower_left.x = Min({@, bounds.lower_left.x}), !.upper_right.x = Max({@, bounds.upper_right.x})]
ExpandUpToCover(r, bounds) == [r EXCEPT !.upper_right.y = Max({@, bounds.upper_right.y})]
ExpandDownToDocver(r, bounds) == [r EXCEPT !.lower_left.y = Min({@, bounds.lower_left.y})]
ExpandBounds(subsume, bounding_box) ==
    ExpandHorizontallyToCover(ExpandUpToCover(ExpandDownToDocver(bounding_box, subsume), subsume), subsume)

\* An optional rectangle is a set of none or one.
ExpandAccumulate(subsume, target) ==
    IF target = {} THEN {subsume} ELSE {ExpandBounds(subsume, box) : box \in target}
AccumulatedOver(rectangles) == FoldLeft(LAMBDA t, r : ExpandAccumulate(r, t), {}, rectangles)

MirrorRectangleY(r) == Rectangle(Point(-r.upper_right.x, r.lower_left.y), Point(-r.lower_left.x, r.upper_right.y))
MirrorRectangleX(r) == Rectangle(Point(r.lower_left.x, -r.upper_right.y), Point(r.upper_right.x, -r.lower_left.y))
TranslateRectangle(r, offset) == Rectangle(Plus(r.lower_left, offset), Plus(r.upper_right, offset))
ResetRectangleOrigin(r) == TranslateRectangle(r, Negated(r.lower_left))
MoveLowerLeftTo(r, point) == TranslateRectangle(ResetRectangleOrigin(r), point)

\* The bounds of a set of points.
BoundsOf(points) ==
    Rectangle(Point(Min({p.x : p \in points}), Min({p.y : p \in points})),
              Point(Max({p.x : p \in points}), Max({p.y : p \in points})))
Corners(r) == {r.lower_left, UpperLeft(r), r.upper_right, LowerRight(r)}
BoundingBoxIfRotated(r, about, turns) ==
    TranslateRectangle(BoundsOf({RotatePoint(Minus(p, about), turns) : p \in Corners(r)}), about)
RotateRectangle(r, turns) == BoundingBoxIfRotated(r, Origin, turns)

\* Padding may be negative: corners that have passed each other change places.
OrderBoundingPoints(a, b) == BoundsOf({a, b})
WithPaddings(r, left, top, right, bottom) ==
    OrderBoundingPoints(Minus(r.lower_left, Point(left, bottom)), Plus(r.upper_right, Point(right, top)))
WithPadding(r, padding) == WithPaddings(r, padding, padding, padding, padding)
RectangleIntersectsWithMargin(r, p, margin) ==
    RectangleIntersects(IF margin = 0 THEN r ELSE WithPadding(r, margin), p)

\* What other shapes on the layer may not touch.
WithKeepout(r, min_separation) == WithPadding(r, min_separation - 1)

PointOnLineOutside(r, line) ==
    LET x == r.lower_left.x - 1
    IN  IF IsVertical(line) THEN Point(line.start.x, r.lower_left.y - 1) ELSE Point(x, HeightAt(line, x))

\* Where an infinite line enters and leaves: on the boundary, the ends of which are not
\* looked at. The code gives up on a line that meets it more than twice.
RectangleIntersectingPoints(r, line) ==
    LET boundary == GetBoundaryLines(r)
        At(k) == IntersectsInBounds(boundary[k], line, TRUE, FALSE)
        hits == SelectSeq(<<1, 2, 3, 4>>, LAMBDA k : At(k).hit)
        incident == SelectSeq(hits, LAMBDA k : At(k).incident)
        found == IF incident = <<>> THEN [i \in DOMAIN hits |-> At(hits[i]).point]
                 ELSE <<boundary[incident[1]].start, boundary[incident[1]].end>>
        Before(p, q) == ProjectionTimesSquare(line, p) <= ProjectionTimesSquare(line, q)
    IN  CASE Len(found) = 0 -> {}
          [] Len(found) = 1 -> {<<found[1], found[1]>>}
          [] Len(found) = 2 -> {IF Before(found[1], found[2]) THEN found ELSE <<found[2], found[1]>>}

-----------------------------------------------------------------------------
(* Rectangles with rounded corners.                                         *)

RoundedRectangle(lower_left, upper_right, corner_radius) ==
    [lower_left |-> lower_left, upper_right |-> upper_right, corner_radius |-> corner_radius]
FromRectangle(central, radius) ==
    RoundedRectangle(Minus(central.lower_left, Point(radius, radius)),
                     Plus(central.upper_right, Point(radius, radius)), radius)

\* What is left when the corners are cut away from both sides.
Inner(o) == Rectangle(Plus(o.lower_left, Point(o.corner_radius, o.corner_radius)),
                      Minus(o.upper_right, Point(o.corner_radius, o.corner_radius)))
BoxOf(o) == Rectangle(o.lower_left, o.upper_right)
WithinRadius(o, centre, p) == L2Squared(centre, p) <= Square(o.corner_radius)

\* The regions without arcs; the one on the left has the centre in it.
EasyRegions(o) ==
    LET i == Inner(o)
        r == o.corner_radius
    IN  {i,
         Rectangle(Minus(i.lower_left, Point(r, 0)), i.upper_right),
         Rectangle(UpperLeft(i), Plus(i.upper_right, Point(0, r))),
         Rectangle(LowerRight(i), Plus(i.upper_right, Point(r, 0))),
         Rectangle(Minus(i.lower_left, Point(0, r)), LowerRight(i))}

\* The corners in the order in which they are tried, each with the centre of its arc as
\* Overlaps has it (that of the third is the centre of the second), and the corner of a
\* rectangle that is nearest to it.
CornerRegions(o, other) ==
    LET i == Inner(o)
        r == o.corner_radius
    IN  <<[region |-> Rectangle(Minus(UpperLeft(i), Point(r, 0)), Plus(UpperLeft(i), Point(0, r))),
           centre |-> UpperLeft(i), nearest |-> LowerRight(other)],
          [region |-> Rectangle(i.upper_right, o.upper_right),
           centre |-> i.upper_right, nearest |-> other.lower_left],
          [region |-> Rectangle(Minus(LowerRight(i), Point(0, r)), Plus(LowerRight(i), Point(r, 0))),
           centre |-> i.upper_right, nearest |-> UpperLeft(other)],
          [region |-> Rectangle(o.lower_left, i.lower_left),
           centre |-> i.lower_left, nearest |-> other.upper_right]>>

\* The first corner that is overlapped decides.
RoundedOverlapsRectangle(o, other) ==
    LET corner == CornerRegions(o, other)
        In(k) == RectanglesOverlap(corner[k].region, other)
    IN  /\ RectanglesOverlap(BoxOf(o), other)
        /\ \/ \E region \in EasyRegions(o) : RectanglesOverlap(region, other)
           \/ \E k \in 1..4 : /\ In(k)
                              /\ \A j \in 1..(k - 1) : ~In(j)
                              /\ WithinRadius(o, corner[k].centre, corner[k].nearest)

\* Opposite corners of the two are compared by the centres of their arcs.
RoundedOverlapsRounded(o, other) ==
    LET a == Inner(o)
        b == Inner(other)
        pairs == {<<a.lower_left, b.upper_right>>, <<UpperLeft(a), LowerRight(b)>>,
                  <<a.upper_right, b.lower_left>>, <<LowerRight(a), UpperLeft(b)>>}
    IN  /\ RectanglesOverlap(BoxOf(o), BoxOf(other))
        /\ \/ \E r \in EasyRegions(o), s \in EasyRegions(other) : RectanglesOverlap(r, s)
           \/ \E pair \in pairs :
                  L2Squared(pair[1], pair[2]) <= Square(o.corner_radius + other.corner_radius)

-----------------------------------------------------------------------------
(* Polygons, as sequences of vertices.                                      *)

AddVertex(polygon, point) ==
    IF polygon # <<>> /\ Last(polygon) = point THEN polygon ELSE Append(polygon, point)
HasVertex(polygon, point) == point \in Range(polygon)
Edges(polygon) ==
    [i \in DOMAIN polygon |-> Line(polygon[i], polygon[(i % Len(polygon)) + 1])]
PolygonBoundingBox(polygon) ==
    IF polygon = <<>> THEN Rectangle(Origin, Origin) ELSE BoundsOf(Range(polygon))

MirrorPolygonY(polygon) == [i \in DOMAIN polygon |-> MirrorPointY(polygon[i])]
MirrorPolygonX(polygon) == [i \in DOMAIN polygon |-> MirrorPointX(polygon[i])]
TranslatePolygon(polygon, offset) == [i \in DOMAIN polygon |-> Plus(polygon[i], offset)]
RotatePolygon(polygon, turns) == [i \in DOMAIN polygon |-> RotatePoint(polygon[i], turns)]
ResetPolygonOrigin(polygon) == TranslatePolygon(polygon, Negated(PolygonBoundingBox(polygon).lower_left))
MovePolygonTo(polygon, point) == TranslatePolygon(ResetPolygonOrigin(polygon), point)

\* A flip mirrors in place.
FlipPolygonHorizontal(polygon) ==
    MovePolygonTo(MirrorPolygonY(polygon), PolygonBoundingBox(polygon).lower_left)
FlipPolygonVertical(polygon) ==
    MovePolygonTo(MirrorPolygonX(polygon), PolygonBoundingBox(polygon).lower_left)

\* Equal if the same from some vertex on. (Two without vertices are not.)
SamePolygon(p, q) ==
    /\ Len(p) = Len(q)
    /\ \E i \in DOMAIN q : \A j \in DOMAIN p : p[j] = q[((i + j - 2) % Len(q)) + 1]

\* Every edge is moved outwards, if the vertices are in clockwise order.
Fatten(polygon, margin) ==
    AppendIntersections([i \in DOMAIN polygon |-> Shifted(Edges(polygon)[i], margin, 0, 0)], TRUE)

\* A place where a line meets a polygon: one point, or a span between two of which one
\* is to be chosen (PointOrChoice).
MinOrMaxPoint(choice, reference, use_max) ==
    LET Distance(p) == IF use_max THEN -L2Squared(p, reference) ELSE L2Squared(p, reference)
    IN  CHOOSE p \in choice.points : \A q \in choice.points \ {p} :
            Distance(p) < Distance(q) \/ (Distance(p) = Distance(q) /\ CompareXThenY(p, q))

\* Choices are taken by distance from a point outside, where the line is outside; at a
\* crossing that changes.
ResolveIntersectingPointsFrom(choices, reference) ==
    LET Distance(i) == L2Squared(MinOrMaxPoint(choices[i], reference, FALSE), reference)
        order == SetToSortSeq(DOMAIN choices,
                     LAMBDA i, j : Distance(i) < Distance(j) \/ (Distance(i) = Distance(j) /\ i < j))
        Step(s, i) ==
            LET choice == choices[i]
                next == MinOrMaxPoint(choice, reference, ~s.outside)
                other == MinOrMaxPoint(choice, reference, s.outside)
                crosses == choice.crosses_boundary
                already_exists == (s.check \/ choice.span) /\ HasVertex(s.sorted, next)
                fresh == IF already_exists THEN <<>> ELSE <<next>>
                touch == IF s.outside THEN fresh \o fresh ELSE <<>>
            IN  IF next \in s.poisoned THEN s
                ELSE IF choice.span /\ ~crosses
                THEN IF s.outside THEN [s EXCEPT !.check = TRUE, !.sorted = @ \o Append(fresh, other)]
                     ELSE [s EXCEPT !.check = TRUE, !.poisoned = @ \union {next, other}]
                ELSE [check |-> choice.span,
                      poisoned |-> s.poisoned \union (IF choice.span THEN {other} ELSE {}),
                      sorted |-> s.sorted \o (IF choice.is_corner /\ ~crosses THEN touch ELSE fresh),
                      outside |-> IF crosses /\ ~already_exists THEN ~s.outside ELSE s.outside]
        sorted == FoldLeft(Step, [check |-> FALSE, poisoned |-> {}, sorted |-> <<>>, outside |-> TRUE],
                           order).sorted
    IN  [k \in 1..(Len(sorted) \div 2) |-> <<sorted[2 * k - 1], sorted[2 * k]>>]

\* The choices at an infinite line, edge by edge. Where the line is incident on an edge,
\* the edges before and after it tell whether it crosses there, and a point found at the
\* end of the edge is dropped; at a corner, the triangle that the two edges span tells.
IntersectingChoices(polygon, line) ==
    LET edges == Edges(polygon)
        Choice(points, span, crosses, is_corner) ==
            [points |-> points, span |-> span, crosses_boundary |-> crosses, is_corner |-> is_corner]
        Step(s, i) ==
            LET segment == edges[i]
                next == edges[(i % Len(edges)) + 1]
                at == IntersectsInBounds(segment, line, TRUE, FALSE)
                points == {segment.end, s.last.end}
                superseded == /\ s.choices # <<>>
                              /\ ~Last(s.choices).span /\ Last(s.choices).points \subseteq points
                kept == IF at.incident /\ superseded THEN Front(s.choices) ELSE s.choices
                completion == Line(segment.end, s.last.start)
                choice ==
                    IF at.incident THEN Choice(points, TRUE, LineDotProduct(s.last, next) > 0, FALSE)
                    ELSE IF at.is_start_or_end
                    THEN Choice({at.point}, FALSE, IntersectsInBounds(completion, line, FALSE, FALSE).hit, TRUE)
                    ELSE Choice({at.point}, FALSE, TRUE, FALSE)
            IN  IF ~at.hit THEN [s EXCEPT !.last = segment]
                ELSE IF at.incident /\ AreSameInfiniteLine(segment, next) THEN s
                ELSE [last |-> segment, choices |-> Append(kept, choice)]
    IN  FoldLeft(Step, [last |-> edges[Len(edges)], choices |-> <<>>],
                 [i \in DOMAIN edges |-> i]).choices

\* Pairs of points at which a line enters and leaves a polygon.
IntersectingPoints(polygon, line) ==
    IF polygon = <<>> \/ IntersectingChoices(polygon, line) = <<>> THEN <<>>
    ELSE ResolveIntersectingPointsFrom(IntersectingChoices(polygon, line),
                                       PointOnLineOutside(PolygonBoundingBox(polygon), line))

\* A line inside the polygon at the place At along it, measured from its start.
InsideAt(polygon, line, At) ==
    /\ line.start # line.end
    /\ \E pair \in Range(IntersectingPoints(polygon, line)) :
           ProjectionTimesSquare(line, pair[1]) <= At /\ ProjectionTimesSquare(line, pair[2]) >= At

PolygonOverlapsRectangle(polygon, r) ==
    LET box == PolygonBoundingBox(polygon)
        diagonals == {Line(r.lower_left, r.upper_right), Line(UpperLeft(r), LowerRight(r))}
    IN  /\ RectanglesOverlap(r, box)
        /\ \/ /\ r.lower_left.x < box.lower_left.x /\ r.lower_left.y < box.lower_left.y
              /\ r.upper_right.x > box.upper_right.x /\ r.upper_right.y > box.upper_right.y
           \/ \E edge \in Range(Edges(polygon)), line \in Range(GetBoundaryLines(r)) :
                  IntersectsInMutualBounds(line, edge).hit
           \/ \E test \in diagonals :
                  InsideAt(polygon, test, 0) \/ InsideAt(polygon, test, LineDotProduct(test, test))

\* The corners of the rounded rectangle are not looked at.
PolygonOverlapsRounded(polygon, o) ==
    /\ RectanglesOverlap(PolygonBoundingBox(polygon), BoxOf(o))
    /\ \E region \in EasyRegions(o) : PolygonOverlapsRectangle(polygon, region)

\* Whether one polygon lies inside the other is not looked at.
PolygonsOverlap(p, q) ==
    /\ RectanglesOverlap(PolygonBoundingBox(p), PolygonBoundingBox(q))
    /\ \E ours \in Range(Edges(p)), theirs \in Range(Edges(q)) : IntersectsInMutualBounds(ours, theirs).hit

PolygonIntersects(polygon, point, margin) ==
    IF margin # 0 THEN PolygonOverlapsRectangle(polygon, CentredAt(point, 2 * margin, 2 * margin))
    ELSE /\ RectangleIntersects(PolygonBoundingBox(polygon), point)
         /\ InsideAt(polygon, Line(point, Plus(point, Point(1, 0))), 0)

====
