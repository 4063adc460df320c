---- MODULE PlacementProofs ----
(***************************************************************************)
(* Theorems about rows and banks of instances, for every cell, every        *)
(* number of rows and every sequence of insertions.                         *)
(***************************************************************************)
EXTENDS MemoryBank, WellFoundedInduction, TLAPS

Parameters ==
    /\ Tap \in Cells /\ Placed \subseteq Cells /\ max_tap_distance \in Nat
    /\ Spans \subseteq Nat /\ MaxRows \in Nat /\ Positions \subseteq Int
    /\ Switched \subseteq BOOLEAN
    /\ has_tap_cell \in BOOLEAN /\ rotate_alternate_rows \in BOOLEAN
    /\ horizontal_alignment \in {"none", "left", "right"}

TileLists == UNION {[S -> Tiles] : S \in SUBSET Int}

AnyRows ==
    [x : Int, y : Int, first : Int, last : Int, tiles : TileLists,
     blank_left : Nat, blank_right : Nat, to_tap_left : Nat, to_tap_right : Nat,
     num_taps : Nat, rotated : BOOLEAN, with_taps : BOOLEAN, gapped : BOOLEAN]

Rows == {r \in AnyRows : r.first <= r.last + 1 /\ r.tiles \in [r.first..r.last -> Tiles]}

\* Where cells have one height, tiles stand on the row.
Level(row) ==
    \A i \in row.first..row.last :
        row.tiles[i].bottom = row.y /\ row.tiles[i].height = Tap.height

\* The distances kept are the ones from the outermost taps to the ends.
LeftTapIs(row, d) ==
    \A i \in row.first..row.last :
        TapAt(row, i) /\ (\A k \in row.first..i - 1 : ~TapAt(row, k))
            => row.tiles[i].left - Front(row).left = d

RightTapIs(row, d) ==
    \A i \in row.first..row.last :
        TapAt(row, i) /\ (\A k \in i + 1..row.last : ~TapAt(row, k))
            => RightOf(Back(row)) - RightOf(row.tiles[i]) = d

Tapped(row) ==
    /\ row.blank_left = 0 /\ row.blank_right = 0
    /\ row.to_tap_left <= max_tap_distance /\ row.to_tap_right <= max_tap_distance
    /\ Empty(row) <=> row.num_taps = 0
    /\ Empty(row) => row.to_tap_left = 0 /\ row.to_tap_right = 0
    /\ ~Empty(row) => \E i \in row.first..row.last : TapAt(row, i)
    /\ LeftTapIs(row, row.to_tap_left) /\ RightTapIs(row, row.to_tap_right)
    /\ TapsInReach(row)

Sound(row) ==
    /\ InOrder(row)
    /\ OneHeight => Level(row)
    /\ ~row.gapped => Tapped(row)

-----------------------------------------------------------------------------
LEMMA InTileLists ==
    ASSUME NEW a \in Int, NEW b \in Int, NEW f \in [a..b -> Tiles]
    PROVE  f \in TileLists
  <1>1. a..b \in SUBSET Int
    OBVIOUS
  <1>2. QED
    BY <1>1 DEF TileLists

LEMMA NewRows ==
    ASSUME NEW x \in Int, NEW y \in Int, NEW rotated \in BOOLEAN, NEW taps \in BOOLEAN
    PROVE  /\ NewRow(x, y, rotated, taps) \in Rows /\ Empty(NewRow(x, y, rotated, taps))
           /\ NewRow(x, y, rotated, taps).first = 1 /\ NewRow(x, y, rotated, taps).last = 0
           /\ NewRow(x, y, rotated, taps).rotated = rotated
           /\ NewRow(x, y, rotated, taps).with_taps = taps
           /\ NewRow(x, y, rotated, taps).gapped = FALSE
           /\ NewRow(x, y, rotated, taps).num_taps = 0
           /\ NewRow(x, y, rotated, taps).to_tap_left = 0
           /\ NewRow(x, y, rotated, taps).to_tap_right = 0
           /\ NewRow(x, y, rotated, taps).blank_left = 0
           /\ NewRow(x, y, rotated, taps).blank_right = 0
  <1> DEFINE none == [i \in {} |-> 0]
             row == NewRow(x, y, rotated, taps)
  <1>1. none \in [{} -> Tiles] /\ 1..0 = {}
    BY SMT
  <1>2. none \in TileLists /\ none \in [1..0 -> Tiles]
    BY <1>1 DEF TileLists
  <1> HIDE DEF none
  <1>3. /\ row.first = 1 /\ row.last = 0 /\ row.tiles = none
        /\ row.rotated = rotated /\ row.with_taps = taps /\ row.num_taps = 0
        /\ row.gapped = FALSE
        /\ row.to_tap_left = 0 /\ row.to_tap_right = 0
        /\ row.blank_left = 0 /\ row.blank_right = 0
    BY DEF NewRow, none
  <1>4. row \in AnyRows
    BY <1>2, 0 \in Int, 0 \in Nat, 1 \in Int, FALSE \in BOOLEAN, Zenon DEF NewRow, AnyRows, none
  <1> HIDE DEF row
  <1>5. row \in Rows /\ Empty(row)
    <2>1. row.tiles \in [row.first..row.last -> Tiles]
      BY <1>2, <1>3, Zenon
    <2>2. row.first <= row.last + 1 /\ row.last < row.first
      BY <1>3
    <2>3. QED
      BY <1>4, <2>1, <2>2, Zenon DEF Rows, Empty
  <1>6. QED
    BY <1>3, <1>5 DEF row

LEMMA RowShape ==
    ASSUME NEW row \in Rows
    PROVE  /\ row \in AnyRows /\ row.x \in Int /\ row.y \in Int
           /\ row.first \in Int /\ row.last \in Int /\ row.first <= row.last + 1
           /\ row.tiles \in [row.first..row.last -> Tiles]
           /\ row.blank_left \in Nat /\ row.blank_right \in Nat
           /\ row.to_tap_left \in Nat /\ row.to_tap_right \in Nat /\ row.num_taps \in Nat
           /\ row.with_taps \in BOOLEAN /\ row.rotated \in BOOLEAN /\ row.gapped \in BOOLEAN
           /\ \A i \in row.first..row.last :
                  /\ row.tiles[i] \in Tiles
                  /\ row.tiles[i].left \in Int /\ row.tiles[i].bottom \in Int
                  /\ row.tiles[i].width \in Nat /\ row.tiles[i].height \in Nat
  BY DEF Rows, AnyRows, Tiles

LEMMA PushedFront ==
    ASSUME NEW row \in Rows, NEW t \in Tiles
    PROVE  /\ PushFront(row, t) \in Rows
           /\ PushFront(row, t).first = row.first - 1 /\ PushFront(row, t).last = row.last
           /\ PushFront(row, t).tiles[row.first - 1] = t
           /\ \A i \in row.first..row.last : PushFront(row, t).tiles[i] = row.tiles[i]
           /\ ~Empty(PushFront(row, t)) /\ Front(PushFront(row, t)) = t
           /\ PushFront(row, t).x = row.x /\ PushFront(row, t).y = row.y
           /\ PushFront(row, t).blank_left = row.blank_left
           /\ PushFront(row, t).blank_right = row.blank_right
           /\ PushFront(row, t).to_tap_left = row.to_tap_left
           /\ PushFront(row, t).to_tap_right = row.to_tap_right
           /\ PushFront(row, t).num_taps = row.num_taps
           /\ PushFront(row, t).with_taps = row.with_taps
           /\ PushFront(row, t).gapped = row.gapped
           /\ PushFront(row, t).rotated = row.rotated
  <1> DEFINE new == [i \in row.first - 1..row.last |-> IF i < row.first THEN t ELSE row.tiles[i]]
  <1>1. row \in AnyRows /\ row.first \in Int /\ row.last \in Int /\ row.first <= row.last + 1
        /\ row.tiles \in [row.first..row.last -> Tiles]
    BY RowShape
  <1>2. new \in [row.first - 1..row.last -> Tiles] /\ row.first - 1 \in Int
    BY <1>1
  <1>3. new \in TileLists
    BY <1>1, <1>2, InTileLists
  <1>4. /\ new[row.first - 1] = t
        /\ \A i \in row.first..row.last : new[i] = row.tiles[i]
    BY <1>1
  <1> HIDE DEF new
  <1>5. PushFront(row, t) = [row EXCEPT !.first = @ - 1, !.tiles = new]
    BY DEF PushFront, new
  <1>6. PushFront(row, t) \in Rows
    <2>1. PushFront(row, t) \in AnyRows
      BY <1>1, <1>2, <1>3, <1>5, Zenon DEF AnyRows
    <2>2. /\ PushFront(row, t).first = row.first - 1 /\ PushFront(row, t).last = row.last
          /\ PushFront(row, t).tiles = new
      BY <1>1, <1>5 DEF AnyRows
    <2>3. QED
      BY <1>1, <1>2, <2>1, <2>2 DEF Rows
  <1>7. QED
    BY <1>1, <1>4, <1>5, <1>6 DEF AnyRows, Empty, Front

LEMMA PushedBack ==
    ASSUME NEW row \in Rows, NEW t \in Tiles
    PROVE  /\ PushBack(row, t) \in Rows
           /\ PushBack(row, t).first = row.first /\ PushBack(row, t).last = row.last + 1
           /\ PushBack(row, t).tiles[row.last + 1] = t
           /\ \A i \in row.first..row.last : PushBack(row, t).tiles[i] = row.tiles[i]
           /\ ~Empty(PushBack(row, t)) /\ Back(PushBack(row, t)) = t
           /\ PushBack(row, t).x = row.x /\ PushBack(row, t).y = row.y
           /\ PushBack(row, t).blank_left = row.blank_left
           /\ PushBack(row, t).blank_right = row.blank_right
           /\ PushBack(row, t).to_tap_left = row.to_tap_left
           /\ PushBack(row, t).to_tap_right = row.to_tap_right
           /\ PushBack(row, t).num_taps = row.num_taps
           /\ PushBack(row, t).with_taps = row.with_taps
           /\ PushBack(row, t).gapped = row.gapped
           /\ PushBack(row, t).rotated = row.rotated
  <1> DEFINE new == [i \in row.first..row.last + 1 |-> IF i > row.last THEN t ELSE row.tiles[i]]
  <1>1. row \in AnyRows /\ row.first \in Int /\ row.last \in Int /\ row.first <= row.last + 1
        /\ row.tiles \in [row.first..row.last -> Tiles]
    BY RowShape
  <1>2. new \in [row.first..row.last + 1 -> Tiles] /\ row.last + 1 \in Int
    BY <1>1
  <1>3. new \in TileLists
    BY <1>1, <1>2, InTileLists
  <1>4. /\ new[row.last + 1] = t
        /\ \A i \in row.first..row.last : new[i] = row.tiles[i]
    BY <1>1
  <1> HIDE DEF new
  <1>5. PushBack(row, t) = [row EXCEPT !.last = @ + 1, !.tiles = new]
    BY DEF PushBack, new
  <1>6. PushBack(row, t) \in Rows
    <2>1. PushBack(row, t) \in AnyRows
      BY <1>1, <1>2, <1>3, <1>5, Zenon DEF AnyRows
    <2>2. /\ PushBack(row, t).first = row.first /\ PushBack(row, t).last = row.last + 1
          /\ PushBack(row, t).tiles = new
      BY <1>1, <1>5 DEF AnyRows
    <2>3. QED
      BY <1>1, <1>2, <2>1, <2>2 DEF Rows
  <1>7. QED
    BY <1>1, <1>4, <1>5, <1>6 DEF AnyRows, Empty, Back

-----------------------------------------------------------------------------
(* The tiles that are added.                                               *)

\* Where a tile goes on the left of a row.
LEMMA LeftTile ==
    ASSUME NEW row \in Rows, NEW cell \in Cells, NEW tap \in BOOLEAN,
           NEW t, t = TileAt(NextPointLeft(row, cell), cell, tap)
    PROVE  /\ t \in Tiles /\ t.left \in Int /\ t.width \in Nat
           /\ t.width = cell.width /\ t.height = cell.height /\ t.tap = tap
           /\ ~Empty(row) => RightOf(t) + row.blank_left = Front(row).left
           /\ Level(row) /\ cell.height = Tap.height => t.bottom = row.y
  <1> DEFINE p == NextPointLeft(row, cell)
  <1>1. cell.width \in Nat /\ cell.height \in Nat
    BY DEF Cells
  <1>b. row.blank_left \in Int
    BY RowShape
  <1>2. CASE Empty(row)
    <2>1. p.x = row.x - row.blank_left /\ p.y = row.y
      BY <1>2 DEF NextPointLeft
    <2>2. p.x \in Int /\ p.y \in Int
      BY <2>1, RowShape
    <2> HIDE DEF p
    <2>3. t = [left |-> p.x, bottom |-> p.y, width |-> cell.width, height |-> cell.height,
               tap |-> tap]
      BY DEF TileAt, p
    <2>4. QED
      BY <1>1, <1>2, <2>1, <2>2, <2>3 DEF Tiles
  <1>3. CASE ~Empty(row)
    <2> DEFINE f == Front(row)
    <2>1. /\ f.left \in Int /\ f.bottom \in Int /\ f.width \in Nat /\ f.height \in Nat
          /\ row.first \in row.first..row.last
      BY <1>3, RowShape DEF Front, Empty
    <2>2. Level(row) => f.bottom = row.y /\ f.height = Tap.height
      BY <2>1 DEF Level, Front
    <2> HIDE DEF f
    <2>3. /\ p.x = f.left - cell.width - row.blank_left
          /\ p.y = (f.bottom + f.height \div 2) - cell.height \div 2
      BY <1>3 DEF NextPointLeft, Beside, f
    <2>4. p.x \in Int /\ p.y \in Int
      <3>1. f.height \div 2 \in Int /\ cell.height \div 2 \in Int
        BY <1>1, <2>1
      <3> HIDE DEF p
      <3>2. p.x \in Int
        BY <1>1, <1>b, <2>1, <2>3
      <3>3. p.y \in Int
        BY <2>1, <2>3, <3>1
      <3>4. QED
        BY <3>2, <3>3
    <2>5. Level(row) /\ cell.height = Tap.height => p.y = row.y
      BY <1>1, <2>1, <2>2, <2>3
    <2> HIDE DEF p
    <2>6. p.x + cell.width + row.blank_left = f.left
      BY <1>1, <1>b, <2>1, <2>3
    <2>7. t = [left |-> p.x, bottom |-> p.y, width |-> cell.width, height |-> cell.height,
               tap |-> tap]
      BY DEF TileAt, p
    <2>8. QED
      BY <1>1, <2>4, <2>5, <2>6, <2>7 DEF Tiles, RightOf, f
  <1>4. QED
    BY <1>2, <1>3

\* Where a tile goes on the right of a row.
LEMMA RightTile ==
    ASSUME NEW row \in Rows, NEW cell \in Cells, NEW tap \in BOOLEAN,
           NEW t, t = TileAt(NextPointRight(row, cell), cell, tap)
    PROVE  /\ t \in Tiles /\ t.left \in Int /\ t.width \in Nat
           /\ t.width = cell.width /\ t.height = cell.height /\ t.tap = tap
           /\ ~Empty(row) => t.left = RightOf(Back(row)) + row.blank_right
           /\ Level(row) /\ cell.height = Tap.height => t.bottom = row.y
  <1> DEFINE p == NextPointRight(row, cell)
  <1>1. cell.width \in Nat /\ cell.height \in Nat
    BY DEF Cells
  <1>b. row.blank_right \in Int
    BY RowShape
  <1>2. CASE Empty(row)
    <2>1. p.x = row.x + row.blank_right /\ p.y = row.y
      BY <1>2 DEF NextPointRight
    <2>2. p.x \in Int /\ p.y \in Int
      BY <2>1, RowShape
    <2> HIDE DEF p
    <2>3. t = [left |-> p.x, bottom |-> p.y, width |-> cell.width, height |-> cell.height,
               tap |-> tap]
      BY DEF TileAt, p
    <2>4. QED
      BY <1>1, <1>2, <2>1, <2>2, <2>3 DEF Tiles
  <1>3. CASE ~Empty(row)
    <2> DEFINE f == Back(row)
    <2>1. /\ f.left \in Int /\ f.bottom \in Int /\ f.width \in Nat /\ f.height \in Nat
          /\ row.last \in row.first..row.last
      BY <1>3, RowShape DEF Back, Empty
    <2>2. Level(row) => f.bottom = row.y /\ f.height = Tap.height
      BY <2>1 DEF Level, Back
    <2> HIDE DEF f
    <2>3. /\ p.x = RightOf(f) + row.blank_right
          /\ p.y = (f.bottom + f.height \div 2) - cell.height \div 2
      BY <1>3 DEF NextPointRight, Beside, f
    <2>4. p.x \in Int /\ p.y \in Int
      <3>1. f.height \div 2 \in Int /\ cell.height \div 2 \in Int
        BY <1>1, <2>1
      <3> HIDE DEF p
      <3>2. p.x \in Int
        BY <1>1, <1>b, <2>1, <2>3 DEF RightOf
      <3>3. p.y \in Int
        BY <2>1, <2>3, <3>1
      <3>4. QED
        BY <3>2, <3>3
    <2>5. Level(row) /\ cell.height = Tap.height => p.y = row.y
      BY <1>1, <2>1, <2>2, <2>3
    <2> HIDE DEF p
    <2>6. t = [left |-> p.x, bottom |-> p.y, width |-> cell.width, height |-> cell.height,
               tap |-> tap]
      BY DEF TileAt, p
    <2>7. QED
      BY <1>1, <2>3, <2>4, <2>5, <2>6 DEF Tiles, f
  <1>4. QED
    BY <1>2, <1>3

\* A tile in front of a row, and one behind it.
Prefixed(row, t, new) ==
    /\ new.first = row.first - 1 /\ new.last = row.last /\ new.y = row.y
    /\ new.tiles[new.first] = t
    /\ \A i \in row.first..row.last : new.tiles[i] = row.tiles[i]

Suffixed(row, t, new) ==
    /\ new.first = row.first /\ new.last = row.last + 1 /\ new.y = row.y
    /\ new.tiles[new.last] = t
    /\ \A i \in row.first..row.last : new.tiles[i] = row.tiles[i]

LEMMA PrefixedInOrder ==
    ASSUME NEW row \in Rows, NEW new \in Rows, NEW t \in Tiles, Prefixed(row, t, new),
           InOrder(row), ~Empty(row) => RightOf(t) <= Front(row).left
    PROVE  InOrder(new)
  <1> SUFFICES ASSUME NEW i \in new.first..new.last, NEW j \in new.first..new.last, i < j
               PROVE  RightOf(new.tiles[i]) <= new.tiles[j].left
    BY DEF InOrder
  <1>1. /\ row.first \in Int /\ row.last \in Int
        /\ \A k \in row.first..row.last :
               row.tiles[k].left \in Int /\ row.tiles[k].width \in Nat
    BY RowShape
  <1>2. j \in row.first..row.last /\ (i \in row.first..row.last \/ i = new.first)
    BY <1>1 DEF Prefixed
  <1>3. CASE i \in row.first..row.last
    BY <1>2, <1>3 DEF Prefixed, InOrder
  <1>4. CASE i = new.first
    <2>1. ~Empty(row) /\ row.first \in row.first..row.last
      BY <1>1, <1>2 DEF Empty
    <2>2. Front(row).left <= row.tiles[j].left
      <3>1. CASE j = row.first
        BY <1>1, <1>2, <3>1 DEF Front
      <3>2. CASE row.first < j
        <4>1. RightOf(row.tiles[row.first]) <= row.tiles[j].left
          BY <1>2, <2>1, <3>2 DEF InOrder
        <4>2. QED
          BY <1>1, <1>2, <2>1, <4>1 DEF RightOf, Front
      <3>3. QED
        BY <1>1, <1>2, <3>1, <3>2
    <2>3. new.tiles[i] = t /\ new.tiles[j] = row.tiles[j]
      BY <1>2, <1>4 DEF Prefixed
    <2>4. RightOf(t) \in Int /\ Front(row).left \in Int
      BY <1>1, <2>1 DEF RightOf, Front, Tiles
    <2>5. QED
      BY <1>1, <1>2, <2>1, <2>2, <2>3, <2>4
  <1>5. QED
    BY <1>2, <1>3, <1>4

LEMMA SuffixedInOrder ==
    ASSUME NEW row \in Rows, NEW new \in Rows, NEW t \in Tiles, Suffixed(row, t, new),
           InOrder(row), ~Empty(row) => RightOf(Back(row)) <= t.left
    PROVE  InOrder(new)
  <1> SUFFICES ASSUME NEW i \in new.first..new.last, NEW j \in new.first..new.last, i < j
               PROVE  RightOf(new.tiles[i]) <= new.tiles[j].left
    BY DEF InOrder
  <1>1. /\ row.first \in Int /\ row.last \in Int
        /\ \A k \in row.first..row.last :
               row.tiles[k].left \in Int /\ row.tiles[k].width \in Nat
    BY RowShape
  <1>2. i \in row.first..row.last /\ (j \in row.first..row.last \/ j = new.last)
    BY <1>1 DEF Suffixed
  <1>3. CASE j \in row.first..row.last
    BY <1>2, <1>3 DEF Suffixed, InOrder
  <1>4. CASE j = new.last
    <2>1. ~Empty(row) /\ row.last \in row.first..row.last
      BY <1>1, <1>2 DEF Empty
    <2>2. RightOf(row.tiles[i]) <= RightOf(Back(row))
      <3>1. CASE i = row.last
        BY <1>1, <1>2, <3>1 DEF Back, RightOf
      <3>2. CASE i < row.last
        <4>1. RightOf(row.tiles[i]) <= row.tiles[row.last].left
          BY <1>2, <2>1, <3>2 DEF InOrder
        <4>2. QED
          BY <1>1, <1>2, <2>1, <4>1 DEF RightOf, Back
      <3>3. QED
        BY <1>1, <1>2, <3>1, <3>2
    <2>3. new.tiles[j] = t /\ new.tiles[i] = row.tiles[i]
      BY <1>2, <1>4 DEF Suffixed
    <2>4. RightOf(row.tiles[i]) \in Int /\ RightOf(Back(row)) \in Int /\ t.left \in Int
      BY <1>1, <1>2, <2>1 DEF RightOf, Back, Tiles
    <2>5. QED
      BY <2>1, <2>2, <2>3, <2>4
  <1>5. QED
    BY <1>2, <1>3, <1>4

LEMMA AddedIsLevel ==
    ASSUME NEW row \in Rows, NEW new \in Rows, NEW t \in Tiles,
           Prefixed(row, t, new) \/ Suffixed(row, t, new),
           Level(row), t.bottom = row.y, t.height = Tap.height
    PROVE  Level(new)
  <1>1. row.first \in Int /\ row.last \in Int
    BY RowShape
  <1> SUFFICES ASSUME NEW i \in new.first..new.last
               PROVE  new.tiles[i].bottom = new.y /\ new.tiles[i].height = Tap.height
    BY DEF Level
  <1>2. CASE Prefixed(row, t, new)
    <2>1. i \in row.first..row.last \/ i = new.first
      BY <1>1, <1>2 DEF Prefixed
    <2>2. QED
      BY <1>2, <2>1 DEF Prefixed, Level
  <1>3. CASE Suffixed(row, t, new)
    <2>1. i \in row.first..row.last \/ i = new.last
      BY <1>1, <1>3 DEF Suffixed
    <2>2. QED
      BY <1>3, <2>1 DEF Suffixed, Level
  <1>4. QED
    BY <1>2, <1>3

-----------------------------------------------------------------------------
(* Taps.                                                                    *)

\* A tap in front of a row that needs one.
LEMMA TapInFront ==
    ASSUME NEW row \in Rows, NEW new \in Rows, NEW t \in Tiles, max_tap_distance \in Nat,
           Prefixed(row, t, new), Tapped(row), t.tap,
           ~Empty(row) => RightOf(t) = Front(row).left,
           new.num_taps = row.num_taps + 1,
           new.blank_left = 0, new.blank_right = 0,
           new.to_tap_left = 0, new.to_tap_right = row.to_tap_right
    PROVE  Tapped(new) /\ ~Empty(new)
  <1>1. /\ row.first \in Int /\ row.last \in Int /\ row.first <= row.last + 1
        /\ row.num_taps \in Nat /\ row.to_tap_left \in Nat /\ row.to_tap_right \in Nat
        /\ \A k \in row.first..row.last :
               row.tiles[k].left \in Int /\ row.tiles[k].width \in Nat
    BY RowShape
  <1>2. /\ new.first \in Int /\ new.first \in new.first..new.last /\ ~Empty(new)
        /\ new.first..new.last = {new.first} \cup row.first..row.last
        /\ Front(new) = t /\ TapAt(new, new.first)
        /\ t.left \in Int /\ t.width \in Nat
    BY <1>1 DEF Prefixed, Empty, Front, TapAt, Tiles
  <1>3. \A k \in row.first..row.last :
            /\ k \in new.first..new.last /\ k # new.first
            /\ new.tiles[k] = row.tiles[k] /\ (TapAt(new, k) <=> TapAt(row, k))
    BY <1>1, <1>2 DEF Prefixed, TapAt
  <1>4. ~Empty(row) => Back(new) = Back(row) /\ row.first \in row.first..row.last
    BY <1>1, <1>3 DEF Prefixed, Back, Empty
  <1>5. LeftTapIs(new, 0)
    <2> SUFFICES ASSUME NEW i \in new.first..new.last, TapAt(new, i),
                        \A k \in new.first..i - 1 : ~TapAt(new, k)
                 PROVE  new.tiles[i].left - Front(new).left = 0
      BY DEF LeftTapIs
    <2>1. i = new.first
      BY <1>1, <1>2 DEF Prefixed
    <2>2. QED
      BY <1>2, <2>1 DEF Prefixed
  <1>6. RightTapIs(new, row.to_tap_right)
    <2> SUFFICES ASSUME NEW i \in new.first..new.last, TapAt(new, i),
                        \A k \in i + 1..new.last : ~TapAt(new, k)
                 PROVE  RightOf(Back(new)) - RightOf(new.tiles[i]) = row.to_tap_right
      BY DEF RightTapIs
    <2>1. CASE i = new.first /\ Empty(row)
      <3>1. Back(new) = t /\ new.tiles[i] = t /\ row.to_tap_right = 0
        BY <1>1, <1>2, <2>1 DEF Empty, Back, Prefixed, Tapped
      <3>2. QED
        BY <1>2, <3>1 DEF RightOf
    <2>2. CASE i = new.first /\ ~Empty(row)
      <3>1. PICK k \in row.first..row.last : TapAt(row, k)
        BY <2>2 DEF Tapped
      <3>2. k \in i + 1..new.last
        BY <1>1, <1>2, <2>2 DEF Prefixed
      <3>3. QED
        BY <1>3, <3>1, <3>2
    <2>3. CASE i \in row.first..row.last
      <3>1. \A k \in i + 1..row.last : ~TapAt(row, k)
        BY <1>1, <1>3, <2>3 DEF Prefixed
      <3>2. RightOf(Back(row)) - RightOf(row.tiles[i]) = row.to_tap_right
        BY <1>3, <2>3, <3>1 DEF Tapped, RightTapIs
      <3>3. QED
        BY <1>1, <1>3, <1>4, <2>3, <3>2 DEF Empty
    <2>4. QED
      BY <1>2, <2>1, <2>2, <2>3
  <1>7. TapsInReach(new)
    <2> SUFFICES ASSUME NEW i \in new.first..new.last, NEW j \in new.first..new.last,
                        TapAt(new, i), TapAt(new, j), i < j,
                        \A k \in i + 1..j - 1 : ~TapAt(new, k)
                 PROVE  new.tiles[j].left - RightOf(new.tiles[i]) <= max_tap_distance
      BY DEF TapsInReach
    <2>1. j \in row.first..row.last
      BY <1>1, <1>2 DEF Prefixed
    <2>2. CASE i = new.first
      <3>1. \A k \in row.first..j - 1 : ~TapAt(row, k)
        BY <1>1, <1>3, <2>1, <2>2 DEF Prefixed
      <3>2. row.tiles[j].left - Front(row).left = row.to_tap_left
        BY <1>3, <2>1, <3>1 DEF Tapped, LeftTapIs
      <3>3. new.tiles[i] = t /\ new.tiles[j] = row.tiles[j] /\ RightOf(t) = Front(row).left
        BY <1>1, <1>3, <2>1, <2>2 DEF Prefixed, Empty
      <3>4. QED
        BY <3>2, <3>3 DEF Tapped
    <2>3. CASE i \in row.first..row.last
      <3>1. \A k \in i + 1..j - 1 : ~TapAt(row, k)
        BY <1>1, <1>3, <2>1, <2>3
      <3>2. row.tiles[j].left - RightOf(row.tiles[i]) <= max_tap_distance
        BY <1>3, <2>1, <2>3, <3>1 DEF Tapped, TapsInReach
      <3>3. QED
        BY <1>3, <2>1, <2>3, <3>2
    <2>4. QED
      BY <1>2, <2>2, <2>3
  <1>8. QED
    BY <1>1, <1>2, <1>5, <1>6, <1>7 DEF Tapped

\* A cell in front of a row that has taps, near enough to the first.
LEMMA CellInFront ==
    ASSUME NEW row \in Rows, NEW new \in Rows, NEW t \in Tiles, max_tap_distance \in Nat,
           Prefixed(row, t, new), Tapped(row), ~Empty(row), ~TapAt(new, new.first),
           RightOf(t) = Front(row).left,
           new.num_taps = row.num_taps,
           new.blank_left = 0, new.blank_right = 0,
           row.to_tap_left + t.width <= max_tap_distance,
           new.to_tap_left = row.to_tap_left + t.width, new.to_tap_right = row.to_tap_right
    PROVE  Tapped(new) /\ ~Empty(new)
  <1>1. /\ row.first \in Int /\ row.last \in Int /\ row.first <= row.last + 1
        /\ row.num_taps \in Nat /\ row.to_tap_left \in Nat /\ row.to_tap_right \in Nat
        /\ \A k \in row.first..row.last :
               row.tiles[k].left \in Int /\ row.tiles[k].width \in Nat
    BY RowShape
  <1>2. /\ new.first \in Int /\ ~Empty(new)
        /\ new.first..new.last = {new.first} \cup row.first..row.last
        /\ Front(new) = t /\ ~TapAt(new, new.first)
        /\ t.left \in Int /\ t.width \in Nat
    BY <1>1 DEF Prefixed, Empty, Front, TapAt, Tiles
  <1>3. \A k \in row.first..row.last :
            /\ k \in new.first..new.last /\ k # new.first
            /\ new.tiles[k] = row.tiles[k] /\ (TapAt(new, k) <=> TapAt(row, k))
    BY <1>1, <1>2 DEF Prefixed, TapAt
  <1>4. Back(new) = Back(row) /\ row.first \in row.first..row.last
    BY <1>1, <1>3 DEF Prefixed, Back, Empty
  <1>5. LeftTapIs(new, row.to_tap_left + t.width)
    <2> SUFFICES ASSUME NEW i \in new.first..new.last, TapAt(new, i),
                        \A k \in new.first..i - 1 : ~TapAt(new, k)
                 PROVE  new.tiles[i].left - Front(new).left = row.to_tap_left + t.width
      BY DEF LeftTapIs
    <2>1. i \in row.first..row.last
      BY <1>2
    <2>2. \A k \in row.first..i - 1 : ~TapAt(row, k)
      BY <1>1, <1>3, <2>1 DEF Prefixed
    <2>3. row.tiles[i].left - Front(row).left = row.to_tap_left
      BY <1>3, <2>1, <2>2 DEF Tapped, LeftTapIs
    <2>4. row.tiles[i].left \in Int /\ Front(row).left \in Int
      BY <1>1, <1>4, <2>1 DEF Front
    <2>5. QED
      BY <1>1, <1>2, <1>3, <2>1, <2>3, <2>4 DEF RightOf
  <1>6. RightTapIs(new, row.to_tap_right)
    <2> SUFFICES ASSUME NEW i \in new.first..new.last, TapAt(new, i),
                        \A k \in i + 1..new.last : ~TapAt(new, k)
                 PROVE  RightOf(Back(new)) - RightOf(new.tiles[i]) = row.to_tap_right
      BY DEF RightTapIs
    <2>1. i \in row.first..row.last
      BY <1>2
    <2>2. \A k \in i + 1..row.last : ~TapAt(row, k)
      BY <1>1, <1>3, <2>1 DEF Prefixed
    <2>3. QED
      BY <1>3, <1>4, <2>1, <2>2 DEF Tapped, RightTapIs
  <1>7. TapsInReach(new)
    <2> SUFFICES ASSUME NEW i \in new.first..new.last, NEW j \in new.first..new.last,
                        TapAt(new, i), TapAt(new, j), i < j,
                        \A k \in i + 1..j - 1 : ~TapAt(new, k)
                 PROVE  new.tiles[j].left - RightOf(new.tiles[i]) <= max_tap_distance
      BY DEF TapsInReach
    <2>1. i \in row.first..row.last /\ j \in row.first..row.last
      BY <1>2
    <2>2. \A k \in i + 1..j - 1 : ~TapAt(row, k)
      BY <1>1, <1>3, <2>1
    <2>3. QED
      BY <1>3, <2>1, <2>2 DEF Tapped, TapsInReach
  <1>8. QED
    <2>1. \E i \in new.first..new.last : TapAt(new, i)
      BY <1>3 DEF Tapped
    <2>2. QED
      BY <1>1, <1>2, <1>5, <1>6, <1>7, <2>1 DEF Tapped

\* A tap behind a row that needs one.
LEMMA TapBehind ==
    ASSUME NEW row \in Rows, NEW new \in Rows, NEW t \in Tiles, max_tap_distance \in Nat,
           Suffixed(row, t, new), Tapped(row), t.tap,
           ~Empty(row) => t.left = RightOf(Back(row)),
           new.num_taps = row.num_taps + 1,
           new.blank_left = 0, new.blank_right = 0,
           new.to_tap_left = row.to_tap_left, new.to_tap_right = 0
    PROVE  Tapped(new) /\ ~Empty(new)
  <1>1. /\ row.first \in Int /\ row.last \in Int /\ row.first <= row.last + 1
        /\ row.num_taps \in Nat /\ row.to_tap_left \in Nat /\ row.to_tap_right \in Nat
        /\ \A k \in row.first..row.last :
               row.tiles[k].left \in Int /\ row.tiles[k].width \in Nat
    BY RowShape
  <1>2. /\ new.last \in Int /\ new.last \in new.first..new.last /\ ~Empty(new)
        /\ new.first..new.last = {new.last} \cup row.first..row.last
        /\ Back(new) = t /\ TapAt(new, new.last)
        /\ t.left \in Int /\ t.width \in Nat
    BY <1>1 DEF Suffixed, Empty, Back, TapAt, Tiles
  <1>3. \A k \in row.first..row.last :
            /\ k \in new.first..new.last /\ k # new.last
            /\ new.tiles[k] = row.tiles[k] /\ (TapAt(new, k) <=> TapAt(row, k))
    BY <1>1, <1>2 DEF Suffixed, TapAt
  <1>4. ~Empty(row) => Front(new) = Front(row) /\ row.last \in row.first..row.last
    BY <1>1, <1>3 DEF Suffixed, Front, Empty
  <1>5. RightTapIs(new, 0)
    <2> SUFFICES ASSUME NEW i \in new.first..new.last, TapAt(new, i),
                        \A k \in i + 1..new.last : ~TapAt(new, k)
                 PROVE  RightOf(Back(new)) - RightOf(new.tiles[i]) = 0
      BY DEF RightTapIs
    <2>1. i = new.last
      BY <1>1, <1>2 DEF Suffixed
    <2>2. QED
      BY <1>2, <2>1 DEF Suffixed, RightOf
  <1>6. LeftTapIs(new, row.to_tap_left)
    <2> SUFFICES ASSUME NEW i \in new.first..new.last, TapAt(new, i),
                        \A k \in new.first..i - 1 : ~TapAt(new, k)
                 PROVE  new.tiles[i].left - Front(new).left = row.to_tap_left
      BY DEF LeftTapIs
    <2>1. CASE i = new.last /\ Empty(row)
      <3>1. Front(new) = t /\ new.tiles[i] = t /\ row.to_tap_left = 0
        BY <1>1, <1>2, <2>1 DEF Empty, Front, Suffixed, Tapped
      <3>2. QED
        BY <1>2, <3>1
    <2>2. CASE i = new.last /\ ~Empty(row)
      <3>1. PICK k \in row.first..row.last : TapAt(row, k)
        BY <2>2 DEF Tapped
      <3>2. k \in new.first..i - 1
        BY <1>1, <1>2, <2>2 DEF Suffixed
      <3>3. QED
        BY <1>3, <3>1, <3>2
    <2>3. CASE i \in row.first..row.last
      <3>1. \A k \in row.first..i - 1 : ~TapAt(row, k)
        BY <1>1, <1>3, <2>3 DEF Suffixed
      <3>2. row.tiles[i].left - Front(row).left = row.to_tap_left
        BY <1>3, <2>3, <3>1 DEF Tapped, LeftTapIs
      <3>3. QED
        BY <1>1, <1>3, <1>4, <2>3, <3>2 DEF Empty
    <2>4. QED
      BY <1>2, <2>1, <2>2, <2>3
  <1>7. TapsInReach(new)
    <2> SUFFICES ASSUME NEW i \in new.first..new.last, NEW j \in new.first..new.last,
                        TapAt(new, i), TapAt(new, j), i < j,
                        \A k \in i + 1..j - 1 : ~TapAt(new, k)
                 PROVE  new.tiles[j].left - RightOf(new.tiles[i]) <= max_tap_distance
      BY DEF TapsInReach
    <2>1. i \in row.first..row.last
      BY <1>1, <1>2 DEF Suffixed
    <2>2. CASE j = new.last
      <3>1. \A k \in i + 1..row.last : ~TapAt(row, k)
        BY <1>1, <1>3, <2>1, <2>2 DEF Suffixed
      <3>2. RightOf(Back(row)) - RightOf(row.tiles[i]) = row.to_tap_right
        BY <1>3, <2>1, <3>1 DEF Tapped, RightTapIs
      <3>3. new.tiles[j] = t /\ new.tiles[i] = row.tiles[i] /\ t.left = RightOf(Back(row))
        BY <1>1, <1>3, <2>1, <2>2 DEF Suffixed, Empty
      <3>4. QED
        BY <3>2, <3>3 DEF Tapped
    <2>3. CASE j \in row.first..row.last
      <3>1. \A k \in i + 1..j - 1 : ~TapAt(row, k)
        BY <1>1, <1>3, <2>1, <2>3
      <3>2. row.tiles[j].left - RightOf(row.tiles[i]) <= max_tap_distance
        BY <1>3, <2>1, <2>3, <3>1 DEF Tapped, TapsInReach
      <3>3. QED
        BY <1>3, <2>1, <2>3, <3>2
    <2>4. QED
      BY <1>2, <2>2, <2>3
  <1>8. QED
    BY <1>1, <1>2, <1>5, <1>6, <1>7 DEF Tapped

\* A cell behind a row that has taps, near enough to the last.
LEMMA CellBehind ==
    ASSUME NEW row \in Rows, NEW new \in Rows, NEW t \in Tiles, max_tap_distance \in Nat,
           Suffixed(row, t, new), Tapped(row), ~Empty(row), ~TapAt(new, new.last),
           t.left = RightOf(Back(row)),
           new.num_taps = row.num_taps,
           new.blank_left = 0, new.blank_right = 0,
           row.to_tap_right + t.width <= max_tap_distance,
           new.to_tap_right = row.to_tap_right + t.width, new.to_tap_left = row.to_tap_left
    PROVE  Tapped(new) /\ ~Empty(new)
  <1>1. /\ row.first \in Int /\ row.last \in Int /\ row.first <= row.last + 1
        /\ row.num_taps \in Nat /\ row.to_tap_left \in Nat /\ row.to_tap_right \in Nat
        /\ \A k \in row.first..row.last :
               row.tiles[k].left \in Int /\ row.tiles[k].width \in Nat
    BY RowShape
  <1>2. /\ new.last \in Int /\ ~Empty(new)
        /\ new.first..new.last = {new.last} \cup row.first..row.last
        /\ Back(new) = t /\ ~TapAt(new, new.last)
        /\ t.left \in Int /\ t.width \in Nat
    BY <1>1 DEF Suffixed, Empty, Back, TapAt, Tiles
  <1>3. \A k \in row.first..row.last :
            /\ k \in new.first..new.last /\ k # new.last
            /\ new.tiles[k] = row.tiles[k] /\ (TapAt(new, k) <=> TapAt(row, k))
    BY <1>1, <1>2 DEF Suffixed, TapAt
  <1>4. Front(new) = Front(row) /\ row.last \in row.first..row.last
    BY <1>1, <1>3 DEF Suffixed, Front, Empty
  <1>5. RightTapIs(new, row.to_tap_right + t.width)
    <2> SUFFICES ASSUME NEW i \in new.first..new.last, TapAt(new, i),
                        \A k \in i + 1..new.last : ~TapAt(new, k)
                 PROVE  RightOf(Back(new)) - RightOf(new.tiles[i]) = row.to_tap_right + t.width
      BY DEF RightTapIs
    <2>1. i \in row.first..row.last
      BY <1>2
    <2>2. \A k \in i + 1..row.last : ~TapAt(row, k)
      BY <1>1, <1>3, <2>1 DEF Suffixed
    <2>3. RightOf(Back(row)) - RightOf(row.tiles[i]) = row.to_tap_right
      BY <1>3, <2>1, <2>2 DEF Tapped, RightTapIs
    <2>4. RightOf(row.tiles[i]) \in Int /\ RightOf(Back(row)) \in Int
      BY <1>1, <1>4, <2>1 DEF Back, RightOf
    <2>5. RightOf(Back(new)) = RightOf(Back(row)) + t.width
      BY <1>2 DEF RightOf
    <2>6. QED
      BY <1>1, <1>2, <1>3, <2>1, <2>3, <2>4, <2>5
  <1>6. LeftTapIs(new, row.to_tap_left)
    <2> SUFFICES ASSUME NEW i \in new.first..new.last, TapAt(new, i),
                        \A k \in new.first..i - 1 : ~TapAt(new, k)
                 PROVE  new.tiles[i].left - Front(new).left = row.to_tap_left
      BY DEF LeftTapIs
    <2>1. i \in row.first..row.last
      BY <1>2
    <2>2. \A k \in row.first..i - 1 : ~TapAt(row, k)
      BY <1>1, <1>3, <2>1 DEF Suffixed
    <2>3. QED
      BY <1>3, <1>4, <2>1, <2>2 DEF Tapped, LeftTapIs
  <1>7. TapsInReach(new)
    <2> SUFFICES ASSUME NEW i \in new.first..new.last, NEW j \in new.first..new.last,
                        TapAt(new, i), TapAt(new, j), i < j,
                        \A k \in i + 1..j - 1 : ~TapAt(new, k)
                 PROVE  new.tiles[j].left - RightOf(new.tiles[i]) <= max_tap_distance
      BY DEF TapsInReach
    <2>1. i \in row.first..row.last /\ j \in row.first..row.last
      BY <1>2
    <2>2. \A k \in i + 1..j - 1 : ~TapAt(row, k)
      BY <1>1, <1>3, <2>1
    <2>3. QED
      BY <1>3, <2>1, <2>2 DEF Tapped, TapsInReach
  <1>8. QED
    <2>1. \E i \in new.first..new.last : TapAt(new, i)
      BY <1>3 DEF Tapped
    <2>2. QED
      BY <1>1, <1>2, <1>5, <1>6, <1>7, <2>1 DEF Tapped

-----------------------------------------------------------------------------
(* Rows that are moved, and rows whose tiles stay as they are.              *)

Moved(row, new, dx, dy) ==
    /\ new.first = row.first /\ new.last = row.last /\ new.y = row.y + dy
    /\ new.blank_left = row.blank_left /\ new.blank_right = row.blank_right
    /\ new.to_tap_left = row.to_tap_left /\ new.to_tap_right = row.to_tap_right
    /\ new.num_taps = row.num_taps /\ new.with_taps = row.with_taps /\ new.gapped = row.gapped
    /\ \A i \in row.first..row.last :
           /\ new.tiles[i].left = row.tiles[i].left + dx
           /\ new.tiles[i].bottom = row.tiles[i].bottom + dy
           /\ new.tiles[i].width = row.tiles[i].width
           /\ new.tiles[i].height = row.tiles[i].height
           /\ new.tiles[i].tap = row.tiles[i].tap

LEMMA MovedIsTapped ==
    ASSUME NEW row \in Rows, NEW new \in Rows, NEW dx \in Int, NEW dy \in Int,
           Moved(row, new, dx, dy), Tapped(row), max_tap_distance \in Nat
    PROVE  Tapped(new)
  <1>1. /\ row.first \in Int /\ row.last \in Int
        /\ row.to_tap_left \in Nat /\ row.to_tap_right \in Nat
        /\ \A k \in row.first..row.last :
               row.tiles[k].left \in Int /\ row.tiles[k].width \in Nat
    BY RowShape
  <1>2. /\ new.first = row.first /\ new.last = row.last /\ (Empty(new) <=> Empty(row))
        /\ ~Empty(row) => row.first \in row.first..row.last /\ row.last \in row.first..row.last
    BY <1>1 DEF Moved, Empty
  <1>3. \A k \in row.first..row.last :
            /\ TapAt(new, k) <=> TapAt(row, k)
            /\ new.tiles[k].left = row.tiles[k].left + dx
            /\ RightOf(new.tiles[k]) = RightOf(row.tiles[k]) + dx
            /\ RightOf(row.tiles[k]) \in Int
    BY <1>1, <1>2 DEF Moved, TapAt, RightOf
  <1>4. ~Empty(row) => /\ Front(new).left = Front(row).left + dx /\ Front(row).left \in Int
                       /\ RightOf(Back(new)) = RightOf(Back(row)) + dx
                       /\ RightOf(Back(row)) \in Int
    BY <1>1, <1>2, <1>3 DEF Front, Back
  <1>5. LeftTapIs(new, new.to_tap_left)
    <2> SUFFICES ASSUME NEW i \in new.first..new.last, TapAt(new, i),
                        \A k \in new.first..i - 1 : ~TapAt(new, k)
                 PROVE  new.tiles[i].left - Front(new).left = new.to_tap_left
      BY DEF LeftTapIs
    <2>1. i \in row.first..row.last /\ ~Empty(row) /\ TapAt(row, i)
      BY <1>1, <1>2, <1>3 DEF Empty
    <2>2. \A k \in row.first..i - 1 : ~TapAt(row, k)
      BY <1>1, <1>2, <1>3, <2>1
    <2>3. row.tiles[i].left - Front(row).left = row.to_tap_left
      BY <2>1, <2>2 DEF Tapped, LeftTapIs
    <2>4. QED
      BY <1>1, <1>3, <1>4, <2>1, <2>3 DEF Moved
  <1>6. RightTapIs(new, new.to_tap_right)
    <2> SUFFICES ASSUME NEW i \in new.first..new.last, TapAt(new, i),
                        \A k \in i + 1..new.last : ~TapAt(new, k)
                 PROVE  RightOf(Back(new)) - RightOf(new.tiles[i]) = new.to_tap_right
      BY DEF RightTapIs
    <2>1. i \in row.first..row.last /\ ~Empty(row) /\ TapAt(row, i)
      BY <1>1, <1>2, <1>3 DEF Empty
    <2>2. \A k \in i + 1..row.last : ~TapAt(row, k)
      BY <1>1, <1>2, <1>3, <2>1
    <2>3. RightOf(Back(row)) - RightOf(row.tiles[i]) = row.to_tap_right
      BY <2>1, <2>2 DEF Tapped, RightTapIs
    <2>4. QED
      BY <1>3, <1>4, <2>1, <2>3 DEF Moved
  <1>7. TapsInReach(new)
    <2> SUFFICES ASSUME NEW i \in new.first..new.last, NEW j \in new.first..new.last,
                        TapAt(new, i), TapAt(new, j), i < j,
                        \A k \in i + 1..j - 1 : ~TapAt(new, k)
                 PROVE  new.tiles[j].left - RightOf(new.tiles[i]) <= max_tap_distance
      BY DEF TapsInReach
    <2>1. i \in row.first..row.last /\ j \in row.first..row.last
      BY <1>2
    <2>2. \A k \in i + 1..j - 1 : ~TapAt(row, k)
      BY <1>1, <1>3, <2>1
    <2>3. row.tiles[j].left - RightOf(row.tiles[i]) <= max_tap_distance
      BY <1>3, <2>1, <2>2 DEF Tapped, TapsInReach
    <2>4. QED
      BY <1>1, <1>3, <2>1, <2>3
  <1>8. ~Empty(new) => \E i \in new.first..new.last : TapAt(new, i)
    BY <1>2, <1>3 DEF Tapped
  <1>9. QED
    BY <1>2, <1>5, <1>6, <1>7, <1>8 DEF Tapped, Moved

LEMMA MovedIsSound ==
    ASSUME NEW row \in Rows, NEW new \in Rows, NEW dx \in Int, NEW dy \in Int,
           Moved(row, new, dx, dy), Sound(row), max_tap_distance \in Nat
    PROVE  Sound(new)
  <1>1. /\ row.first \in Int /\ row.last \in Int /\ row.y \in Int
        /\ \A k \in row.first..row.last :
               /\ row.tiles[k].left \in Int /\ row.tiles[k].width \in Nat
               /\ row.tiles[k].bottom \in Int
    BY RowShape
  <1>2. InOrder(new)
    <2> SUFFICES ASSUME NEW i \in new.first..new.last, NEW j \in new.first..new.last, i < j
                 PROVE  RightOf(new.tiles[i]) <= new.tiles[j].left
      BY DEF InOrder
    <2>1. i \in row.first..row.last /\ j \in row.first..row.last
      BY DEF Moved
    <2>2. RightOf(row.tiles[i]) <= row.tiles[j].left
      BY <2>1 DEF Sound, InOrder
    <2>3. QED
      BY <1>1, <2>1, <2>2 DEF Moved, RightOf
  <1>3. OneHeight => Level(new)
    BY <1>1 DEF Sound, Level, Moved
  <1>4. ~new.gapped => Tapped(new)
    BY MovedIsTapped DEF Sound, Moved
  <1>5. QED
    BY <1>2, <1>3, <1>4 DEF Sound

LEMMA SameTiles ==
    ASSUME NEW row \in Rows, NEW new \in AnyRows,
           new.first = row.first, new.last = row.last, new.tiles = row.tiles
    PROVE  /\ new \in Rows
           /\ InOrder(row) => InOrder(new)
           /\ new.y = row.y /\ Level(row) => Level(new)
  <1>1. new \in Rows
    BY RowShape, Zenon DEF Rows
  <1>2. QED
    BY <1>1 DEF InOrder, Level

\* Moving a row, and shifting its tiles.
LEMMA MovedRow ==
    ASSUME NEW row \in Rows, NEW x \in Int, NEW y \in Int
    PROVE  /\ MoveTo(row, x, y) \in Rows
           /\ Moved(row, MoveTo(row, x, y), x - row.x, y - row.y)
           /\ MoveTo(row, x, y).rotated = row.rotated
           /\ x - row.x \in Int /\ y - row.y \in Int
  <1> DEFINE dx == x - row.x
             dy == y - row.y
             at(t) == [t EXCEPT !.left = @ + dx, !.bottom = @ + dy]
             new == [i \in row.first..row.last |-> at(row.tiles[i])]
  <1>1. /\ row \in AnyRows /\ row.x \in Int /\ row.y \in Int
        /\ row.first \in Int /\ row.last \in Int /\ row.first <= row.last + 1
        /\ \A i \in row.first..row.last : row.tiles[i] \in Tiles
    BY RowShape
  <1> dx \in Int /\ dy \in Int
    BY <1>1
  <1> HIDE DEF dx, dy
  <1>2. \A t \in Tiles : /\ at(t) \in Tiles /\ at(t).left = t.left + dx
                         /\ at(t).bottom = t.bottom + dy /\ at(t).width = t.width
                         /\ at(t).height = t.height /\ at(t).tap = t.tap
    <2> SUFFICES ASSUME NEW t \in Tiles
                 PROVE  /\ at(t) \in Tiles /\ at(t).left = t.left + dx
                        /\ at(t).bottom = t.bottom + dy /\ at(t).width = t.width
                        /\ at(t).height = t.height /\ at(t).tap = t.tap
      BY Zenon
    <2>1. t.left + dx \in Int /\ t.bottom + dy \in Int
      BY DEF Tiles
    <2>2. at(t) \in Tiles
      BY <2>1, Zenon DEF Tiles
    <2>3. QED
      BY <2>2, SMT DEF Tiles
  <1> HIDE DEF at
  <1>3. new \in [row.first..row.last -> Tiles]
    BY <1>1, <1>2
  <1>4. \A i \in row.first..row.last : new[i] = at(row.tiles[i])
    OBVIOUS
  <1> HIDE DEF new
  <1>5. new \in TileLists
    BY <1>1, <1>3, InTileLists
  <1>6. MoveTo(row, x, y) = [row EXCEPT !.x = x, !.y = y, !.tiles = new]
    BY DEF MoveTo, new, at, dx, dy
  <1>7. MoveTo(row, x, y) \in AnyRows
    BY <1>1, <1>5, <1>6, Zenon DEF AnyRows
  <1> DEFINE r == MoveTo(row, x, y)
  <1>8. /\ r.first = row.first /\ r.last = row.last /\ r.tiles = new /\ r.y = y
        /\ r.blank_left = row.blank_left /\ r.blank_right = row.blank_right
        /\ r.to_tap_left = row.to_tap_left /\ r.to_tap_right = row.to_tap_right
        /\ r.num_taps = row.num_taps /\ r.with_taps = row.with_taps /\ r.gapped = row.gapped
        /\ r.rotated = row.rotated
    BY <1>1, <1>6 DEF AnyRows
  <1> HIDE DEF r
  <1>9. r \in Rows
    BY <1>1, <1>3, <1>7, <1>8 DEF Rows, r
  <1>10. r.y = row.y + dy
    BY <1>1, <1>8 DEF dy
  <1>11. Moved(row, r, dx, dy)
    BY <1>1, <1>2, <1>4, <1>8, <1>10 DEF Moved
  <1>12. QED
    BY <1>8, <1>9, <1>11 DEF r, dx, dy

LEMMA ShiftedRow ==
    ASSUME NEW row \in Rows, NEW by \in Int
    PROVE  /\ Shifted(row, by) \in Rows /\ Moved(row, Shifted(row, by), by, 0)
           /\ Shifted(row, by).rotated = row.rotated
  <1> DEFINE at(t) == [t EXCEPT !.left = @ + by]
             new == [i \in row.first..row.last |-> at(row.tiles[i])]
  <1>1. /\ row \in AnyRows /\ row.y \in Int
        /\ row.first \in Int /\ row.last \in Int /\ row.first <= row.last + 1
        /\ \A i \in row.first..row.last : row.tiles[i] \in Tiles /\ row.tiles[i].bottom \in Int
    BY RowShape
  <1>2. \A t \in Tiles : /\ at(t) \in Tiles /\ at(t).left = t.left + by
                         /\ at(t).bottom = t.bottom /\ at(t).width = t.width
                         /\ at(t).height = t.height /\ at(t).tap = t.tap
    BY <1>1 DEF Tiles
  <1> HIDE DEF at
  <1>3. new \in [row.first..row.last -> Tiles]
    BY <1>1, <1>2
  <1>4. \A i \in row.first..row.last : new[i] = at(row.tiles[i])
    OBVIOUS
  <1> HIDE DEF new
  <1>5. new \in TileLists
    BY <1>1, <1>3, InTileLists
  <1>6. Shifted(row, by) = [row EXCEPT !.tiles = new]
    BY DEF Shifted, new, at
  <1>7. Shifted(row, by) \in AnyRows
    BY <1>1, <1>5, <1>6, Zenon DEF AnyRows
  <1> DEFINE r == Shifted(row, by)
  <1>8. /\ r.first = row.first /\ r.last = row.last /\ r.tiles = new /\ r.y = row.y
        /\ r.blank_left = row.blank_left /\ r.blank_right = row.blank_right
        /\ r.to_tap_left = row.to_tap_left /\ r.to_tap_right = row.to_tap_right
        /\ r.num_taps = row.num_taps /\ r.with_taps = row.with_taps /\ r.gapped = row.gapped
        /\ r.rotated = row.rotated
    BY <1>1, <1>6 DEF AnyRows
  <1> HIDE DEF r
  <1>9. r \in Rows
    BY <1>1, <1>3, <1>7, <1>8 DEF Rows, r
  <1>10. Moved(row, r, by, 0)
    BY <1>1, <1>2, <1>4, <1>8 DEF Moved
  <1>11. QED
    BY <1>8, <1>9, <1>10 DEF r

-----------------------------------------------------------------------------
(* The operations on a row.                                                 *)

\* Everything but the distances and the blank space.
SameRow(row, new) ==
    /\ new.first = row.first /\ new.last = row.last /\ new.tiles = row.tiles
    /\ new.y = row.y /\ new.rotated = row.rotated /\ new.with_taps = row.with_taps
    /\ new.gapped = row.gapped

LEMMA AccountedLeft ==
    ASSUME NEW row \in Rows, NEW span \in Nat
    PROVE  /\ AccountLeft(row, span) \in Rows /\ SameRow(row, AccountLeft(row, span))
           /\ AccountLeft(row, span).num_taps = row.num_taps
           /\ AccountLeft(row, span).blank_left = row.blank_left
           /\ AccountLeft(row, span).blank_right = row.blank_right
           /\ AccountLeft(row, span).to_tap_left = row.to_tap_left + span
           /\ row.num_taps # 0 => AccountLeft(row, span).to_tap_right = row.to_tap_right
  <1> DEFINE other == IF row.num_taps = 0 THEN row.to_tap_right + span ELSE row.to_tap_right
             new == AccountLeft(row, span)
  <1>1. /\ row \in AnyRows /\ other \in Nat /\ row.to_tap_left + span \in Nat
        /\ row.num_taps # 0 => other = row.to_tap_right
    BY RowShape
  <1> HIDE DEF other
  <1>2. new = [row EXCEPT !.to_tap_left = @ + span, !.to_tap_right = other]
    BY DEF AccountLeft, other
  <1>3. new \in AnyRows
    BY <1>1, <1>2, Zenon DEF AnyRows
  <1>4. /\ SameRow(row, new) /\ new.num_taps = row.num_taps
        /\ new.blank_left = row.blank_left /\ new.blank_right = row.blank_right
        /\ new.to_tap_left = row.to_tap_left + span /\ new.to_tap_right = other
    BY <1>1, <1>2 DEF AnyRows, SameRow
  <1> HIDE DEF new
  <1>5. new \in Rows
    BY <1>3, <1>4, SameTiles DEF SameRow
  <1>6. QED
    BY <1>1, <1>4, <1>5 DEF new

LEMMA AccountedRight ==
    ASSUME NEW row \in Rows, NEW span \in Nat
    PROVE  /\ AccountRight(row, span) \in Rows /\ SameRow(row, AccountRight(row, span))
           /\ AccountRight(row, span).num_taps = row.num_taps
           /\ AccountRight(row, span).blank_left = row.blank_left
           /\ AccountRight(row, span).blank_right = row.blank_right
           /\ AccountRight(row, span).to_tap_right = row.to_tap_right + span
           /\ row.num_taps # 0 => AccountRight(row, span).to_tap_left = row.to_tap_left
  <1> DEFINE other == IF row.num_taps = 0 THEN row.to_tap_left + span ELSE row.to_tap_left
             new == AccountRight(row, span)
  <1>1. /\ row \in AnyRows /\ other \in Nat /\ row.to_tap_right + span \in Nat
        /\ row.num_taps # 0 => other = row.to_tap_left
    BY RowShape
  <1> HIDE DEF other
  <1>2. new = [row EXCEPT !.to_tap_right = @ + span, !.to_tap_left = other]
    BY DEF AccountRight, other
  <1>3. new \in AnyRows
    BY <1>1, <1>2, Zenon DEF AnyRows
  <1>4. /\ SameRow(row, new) /\ new.num_taps = row.num_taps
        /\ new.blank_left = row.blank_left /\ new.blank_right = row.blank_right
        /\ new.to_tap_right = row.to_tap_right + span /\ new.to_tap_left = other
    BY <1>1, <1>2 DEF AnyRows, SameRow
  <1> HIDE DEF new
  <1>5. new \in Rows
    BY <1>3, <1>4, SameTiles DEF SameRow
  <1>6. QED
    BY <1>1, <1>4, <1>5 DEF new

LEMMA RowEnds ==
    ASSUME NEW row \in Rows, ~Empty(row)
    PROVE  Front(row).left \in Int /\ RightOf(Back(row)) \in Int
  <1>1. row.first \in row.first..row.last /\ row.last \in row.first..row.last
    BY RowShape DEF Empty
  <1>2. Front(row).left \in Int
    BY <1>1, RowShape DEF Front
  <1>3. /\ Back(row).left \in Int /\ Back(row).width \in Nat
    BY <1>1, RowShape DEF Back
  <1>4. RightOf(Back(row)) \in Int
    BY <1>3 DEF RightOf
  <1>5. QED
    BY <1>2, <1>4

\* Pushing the tile that belongs there keeps a row in order and level.
LEMMA PushedLeft ==
    ASSUME NEW row \in Rows, NEW cell \in Cells, NEW tap \in BOOLEAN, NEW new \in Rows,
           NEW t, t = TileAt(NextPointLeft(row, cell), cell, tap),
           Prefixed(row, t, new), InOrder(row), OneHeight => Level(row),
           OneHeight => cell.height = Tap.height
    PROVE  InOrder(new) /\ (OneHeight => Level(new))
  <1>1. /\ t \in Tiles /\ t.left \in Int /\ t.width \in Nat /\ t.height = cell.height
        /\ ~Empty(row) => RightOf(t) + row.blank_left = Front(row).left
        /\ Level(row) /\ cell.height = Tap.height => t.bottom = row.y
    BY LeftTile
  <1>2. ~Empty(row) => RightOf(t) <= Front(row).left
    BY <1>1, RowShape, RowEnds DEF RightOf
  <1>3. InOrder(new)
    BY <1>1, <1>2, PrefixedInOrder
  <1>4. OneHeight => Level(new)
    BY <1>1, AddedIsLevel
  <1>5. QED
    BY <1>3, <1>4

LEMMA PushedRight ==
    ASSUME NEW row \in Rows, NEW cell \in Cells, NEW tap \in BOOLEAN, NEW new \in Rows,
           NEW t, t = TileAt(NextPointRight(row, cell), cell, tap),
           Suffixed(row, t, new), InOrder(row), OneHeight => Level(row),
           OneHeight => cell.height = Tap.height
    PROVE  InOrder(new) /\ (OneHeight => Level(new))
  <1>1. /\ t \in Tiles /\ t.left \in Int /\ t.width \in Nat /\ t.height = cell.height
        /\ ~Empty(row) => t.left = RightOf(Back(row)) + row.blank_right
        /\ Level(row) /\ cell.height = Tap.height => t.bottom = row.y
    BY RightTile
  <1>2. ~Empty(row) => RightOf(Back(row)) <= t.left
    BY <1>1, RowShape, RowEnds
  <1>3. InOrder(new)
    BY <1>1, <1>2, SuffixedInOrder
  <1>4. OneHeight => Level(new)
    BY <1>1, AddedIsLevel
  <1>5. QED
    BY <1>3, <1>4

\* A tap is put in where one is needed: then the span fits.
LEMMA TappedLeft ==
    ASSUME Parameters, NEW row \in Rows, Sound(row), NEW span \in Nat
    PROVE  /\ WithTapLeft(row, span) \in Rows /\ Sound(WithTapLeft(row, span))
           /\ WithTapLeft(row, span).rotated = row.rotated
           /\ WithTapLeft(row, span).gapped = row.gapped
           /\ ~row.gapped /\ row.with_taps /\ span <= max_tap_distance =>
                  /\ ~Empty(WithTapLeft(row, span))
                  /\ WithTapLeft(row, span).to_tap_left + span <= max_tap_distance
  <1> DEFINE t == TileAt(NextPointLeft(row, Tap), Tap, TRUE)
             pushed == PushFront(row, t)
             new == [pushed EXCEPT !.num_taps = @ + 1, !.to_tap_left = 0]
  <1>1. CASE NeedsTap(row, row.to_tap_left, span)
    <2>1. /\ t \in Tiles /\ t.left \in Int /\ t.width \in Nat /\ t.tap
          /\ ~Empty(row) => RightOf(t) + row.blank_left = Front(row).left
      <3>1. t = TileAt(NextPointLeft(row, Tap), Tap, TRUE)
        OBVIOUS
      <3> HIDE DEF t
      <3>2. QED
        BY <3>1, LeftTile DEF Parameters
    <2>2. /\ pushed \in Rows /\ Prefixed(row, t, pushed)
          /\ pushed.rotated = row.rotated /\ pushed.gapped = row.gapped
          /\ pushed.num_taps = row.num_taps
          /\ pushed.blank_left = row.blank_left /\ pushed.blank_right = row.blank_right
          /\ pushed.to_tap_right = row.to_tap_right
      <3> HIDE DEF t
      <3>1. QED
        BY <2>1, PushedFront DEF Prefixed
    <2> HIDE DEF pushed
    <2>3. pushed.num_taps + 1 \in Nat /\ pushed \in AnyRows
      BY <2>2, RowShape
    <2>4. new \in AnyRows
      BY <2>3, 0 \in Nat, Zenon DEF AnyRows
    <2>5. /\ SameRow(pushed, new) /\ new.num_taps = pushed.num_taps + 1
          /\ new.to_tap_left = 0 /\ new.to_tap_right = pushed.to_tap_right
          /\ new.blank_left = pushed.blank_left /\ new.blank_right = pushed.blank_right
      BY <2>3 DEF AnyRows, SameRow
    <2>6. new = WithTapLeft(row, span)
      BY <1>1 DEF WithTapLeft, pushed
    <2> HIDE DEF new
    <2>7. new \in Rows
      BY <2>2, <2>4, <2>5, SameTiles DEF SameRow
    <2>8. Prefixed(row, t, new)
      BY <2>2, <2>5 DEF Prefixed, SameRow
    <2>9. InOrder(new) /\ (OneHeight => Level(new))
      BY <2>7, <2>8, PushedLeft DEF Parameters, Sound
    <2>10. ~row.gapped => Tapped(new) /\ ~Empty(new)
      <3> HAVE ~row.gapped
      <3>1. Tapped(row) /\ row.blank_left = 0 /\ row.blank_right = 0
        BY DEF Sound, Tapped
      <3> HIDE DEF t
      <3>2. ~Empty(row) => RightOf(t) = Front(row).left
        BY <2>1, <3>1, RowEnds DEF RightOf
      <3>3. QED
        BY <2>1, <2>2, <2>5, <2>7, <2>8, <3>1, <3>2, TapInFront DEF Parameters, SameRow
    <2>11. new.gapped = row.gapped /\ ~Empty(new)
      BY <2>2, <2>5, <2>8, RowShape DEF SameRow, Prefixed, Suffixed, Empty
    <2>12. QED
      BY <1>1, <2>2, <2>5, <2>6, <2>7, <2>9, <2>10, <2>11 DEF Sound, SameRow, Parameters
  <1>2. CASE ~NeedsTap(row, row.to_tap_left, span)
    <2>1. WithTapLeft(row, span) = row
      BY <1>2 DEF WithTapLeft
    <2>2. ~row.gapped /\ row.with_taps =>
              ~Empty(row) /\ row.to_tap_left + span <= max_tap_distance
      BY <1>2, RowShape DEF NeedsTap, Sound, Tapped, Parameters
    <2>3. QED
      BY <2>1, <2>2
  <1>3. QED
    BY <1>1, <1>2

LEMMA TappedRight ==
    ASSUME Parameters, NEW row \in Rows, Sound(row), NEW span \in Nat
    PROVE  /\ WithTapRight(row, span) \in Rows /\ Sound(WithTapRight(row, span))
           /\ WithTapRight(row, span).rotated = row.rotated
           /\ WithTapRight(row, span).gapped = row.gapped
           /\ ~row.gapped /\ row.with_taps /\ span <= max_tap_distance =>
                  /\ ~Empty(WithTapRight(row, span))
                  /\ WithTapRight(row, span).to_tap_right + span <= max_tap_distance
  <1> DEFINE t == TileAt(NextPointRight(row, Tap), Tap, TRUE)
             pushed == PushBack(row, t)
             new == [pushed EXCEPT !.num_taps = @ + 1, !.to_tap_right = 0]
  <1>1. CASE NeedsTap(row, row.to_tap_right, span)
    <2>1. /\ t \in Tiles /\ t.left \in Int /\ t.width \in Nat /\ t.tap
          /\ ~Empty(row) => t.left = RightOf(Back(row)) + row.blank_right
      <3>1. t = TileAt(NextPointRight(row, Tap), Tap, TRUE)
        OBVIOUS
      <3> HIDE DEF t
      <3>2. QED
        BY <3>1, RightTile DEF Parameters
    <2>2. /\ pushed \in Rows /\ Suffixed(row, t, pushed)
          /\ pushed.rotated = row.rotated /\ pushed.gapped = row.gapped
          /\ pushed.num_taps = row.num_taps
          /\ pushed.blank_left = row.blank_left /\ pushed.blank_right = row.blank_right
          /\ pushed.to_tap_left = row.to_tap_left
      <3> HIDE DEF t
      <3>1. QED
        BY <2>1, PushedBack DEF Suffixed
    <2> HIDE DEF pushed
    <2>3. pushed.num_taps + 1 \in Nat /\ pushed \in AnyRows
      BY <2>2, RowShape
    <2>4. new \in AnyRows
      BY <2>3, 0 \in Nat, Zenon DEF AnyRows
    <2>5. /\ SameRow(pushed, new) /\ new.num_taps = pushed.num_taps + 1
          /\ new.to_tap_right = 0 /\ new.to_tap_left = pushed.to_tap_left
          /\ new.blank_left = pushed.blank_left /\ new.blank_right = pushed.blank_right
      BY <2>3 DEF AnyRows, SameRow
    <2>6. new = WithTapRight(row, span)
      BY <1>1 DEF WithTapRight, pushed
    <2> HIDE DEF new
    <2>7. new \in Rows
      BY <2>2, <2>4, <2>5, SameTiles DEF SameRow
    <2>8. Suffixed(row, t, new)
      BY <2>2, <2>5 DEF Suffixed, SameRow
    <2>9. InOrder(new) /\ (OneHeight => Level(new))
      BY <2>7, <2>8, PushedRight DEF Parameters, Sound
    <2>10. ~row.gapped => Tapped(new) /\ ~Empty(new)
      <3> HAVE ~row.gapped
      <3>1. Tapped(row) /\ row.blank_left = 0 /\ row.blank_right = 0
        BY DEF Sound, Tapped
      <3> HIDE DEF t
      <3>2. ~Empty(row) => t.left = RightOf(Back(row))
        BY <2>1, <3>1, RowEnds
      <3>3. QED
        BY <2>1, <2>2, <2>5, <2>7, <2>8, <3>1, <3>2, TapBehind DEF Parameters, SameRow
    <2>11. new.gapped = row.gapped /\ ~Empty(new)
      BY <2>2, <2>5, <2>8, RowShape DEF SameRow, Prefixed, Suffixed, Empty
    <2>12. QED
      BY <1>1, <2>2, <2>5, <2>6, <2>7, <2>9, <2>10, <2>11 DEF Sound, SameRow, Parameters
  <1>2. CASE ~NeedsTap(row, row.to_tap_right, span)
    <2>1. WithTapRight(row, span) = row
      BY <1>2 DEF WithTapRight
    <2>2. ~row.gapped /\ row.with_taps =>
              ~Empty(row) /\ row.to_tap_right + span <= max_tap_distance
      BY <1>2, RowShape DEF NeedsTap, Sound, Tapped, Parameters
    <2>3. QED
      BY <2>1, <2>2
  <1>3. QED
    BY <1>1, <1>2

\* A cell placed where a tap is near enough, whether or not the blank space
\* before it is forgotten.
LEMMA PlacedLeft ==
    ASSUME Parameters, NEW row \in Rows, Sound(row), NEW cell \in Cells,
           OneHeight => cell.height = Tap.height,
           ~row.gapped => ~Empty(row) /\ row.to_tap_left + cell.width <= max_tap_distance,
           NEW tap \in BOOLEAN, ~tap, NEW t, t = TileAt(NextPointLeft(row, cell), cell, tap),
           NEW placed \in Rows, SameRow(PushFront(row, t), placed),
           placed.num_taps = row.num_taps,
           placed.to_tap_left = row.to_tap_left, placed.to_tap_right = row.to_tap_right,
           placed.blank_left = 0 \/ placed.blank_left = row.blank_left, placed.blank_right = row.blank_right
    PROVE  /\ AccountLeft(placed, cell.width) \in Rows
           /\ Sound(AccountLeft(placed, cell.width))
           /\ AccountLeft(placed, cell.width).rotated = row.rotated
           /\ AccountLeft(placed, cell.width).gapped = row.gapped
  <1> DEFINE new == AccountLeft(placed, cell.width)
  <1>1. /\ t \in Tiles /\ t.left \in Int /\ t.width = cell.width /\ t.width \in Nat
        /\ ~Empty(row) => RightOf(t) + row.blank_left = Front(row).left
    BY LeftTile
  <1>2. cell.width \in Nat
    BY DEF Cells
  <1>3. /\ new \in Rows /\ SameRow(placed, new) /\ new.num_taps = placed.num_taps
        /\ new.blank_left = placed.blank_left /\ new.blank_right = placed.blank_right
        /\ new.to_tap_left = placed.to_tap_left + cell.width
        /\ placed.num_taps # 0 => new.to_tap_right = placed.to_tap_right
    BY <1>2, AccountedLeft
  <1> HIDE DEF new
  <1>4. Prefixed(row, t, new) /\ new.rotated = row.rotated /\ new.gapped = row.gapped
    <2>1. /\ PushFront(row, t).first = row.first - 1 /\ PushFront(row, t).last = row.last
          /\ PushFront(row, t).tiles[row.first - 1] = t
          /\ \A i \in row.first..row.last : PushFront(row, t).tiles[i] = row.tiles[i]
          /\ PushFront(row, t).y = row.y /\ PushFront(row, t).gapped = row.gapped
          /\ PushFront(row, t).rotated = row.rotated
      BY <1>1, PushedFront
    <2>2. QED
      BY <1>3, <2>1 DEF Prefixed, SameRow
  <1>5. InOrder(new) /\ (OneHeight => Level(new))
    BY <1>3, <1>4, PushedLeft DEF Sound
  <1>6. ~TapAt(new, new.first)
    <2>1. t.tap = tap
      BY LeftTile
    <2>2. QED
      BY <1>4, <2>1 DEF Prefixed, TapAt
  <1>7. ~new.gapped => Tapped(new)
    <2> HAVE ~new.gapped
    <2>1. Tapped(row) /\ row.blank_left = 0 /\ row.blank_right = 0 /\ ~Empty(row)
          /\ row.num_taps # 0 /\ ~row.gapped
      BY <1>4 DEF Sound, Tapped
    <2>2. RightOf(t) = Front(row).left
      BY <1>1, <2>1, RowEnds DEF RightOf
    <2>3. max_tap_distance \in Nat /\ row.to_tap_left + t.width <= max_tap_distance
      BY <1>1, <2>1 DEF Parameters
    <2>4. /\ new.blank_left = 0 /\ new.blank_right = 0 /\ new.num_taps = row.num_taps
          /\ new.to_tap_left = row.to_tap_left + t.width
          /\ new.to_tap_right = row.to_tap_right
      BY <1>1, <1>3, <2>1
    <2>5. QED
      BY <1>1, <1>3, <1>4, <1>6, <2>1, <2>2, <2>3, <2>4, CellInFront
  <1>8. QED
    BY <1>3, <1>4, <1>5, <1>7 DEF Sound, new

LEMMA PlacedRight ==
    ASSUME Parameters, NEW row \in Rows, Sound(row), NEW cell \in Cells,
           OneHeight => cell.height = Tap.height,
           ~row.gapped => ~Empty(row) /\ row.to_tap_right + cell.width <= max_tap_distance,
           NEW tap \in BOOLEAN, ~tap, NEW t, t = TileAt(NextPointRight(row, cell), cell, tap),
           NEW placed \in Rows, SameRow(PushBack(row, t), placed),
           placed.num_taps = row.num_taps,
           placed.to_tap_left = row.to_tap_left, placed.to_tap_right = row.to_tap_right,
           placed.blank_left = row.blank_left, placed.blank_right = 0 \/ placed.blank_right = row.blank_right
    PROVE  /\ AccountRight(placed, cell.width) \in Rows
           /\ Sound(AccountRight(placed, cell.width))
           /\ AccountRight(placed, cell.width).rotated = row.rotated
           /\ AccountRight(placed, cell.width).gapped = row.gapped
  <1> DEFINE new == AccountRight(placed, cell.width)
  <1>1. /\ t \in Tiles /\ t.left \in Int /\ t.width = cell.width /\ t.width \in Nat
        /\ ~Empty(row) => t.left = RightOf(Back(row)) + row.blank_right
    BY RightTile
  <1>2. cell.width \in Nat
    BY DEF Cells
  <1>3. /\ new \in Rows /\ SameRow(placed, new) /\ new.num_taps = placed.num_taps
        /\ new.blank_left = placed.blank_left /\ new.blank_right = placed.blank_right
        /\ new.to_tap_right = placed.to_tap_right + cell.width
        /\ placed.num_taps # 0 => new.to_tap_left = placed.to_tap_left
    BY <1>2, AccountedRight
  <1> HIDE DEF new
  <1>4. Suffixed(row, t, new) /\ new.rotated = row.rotated /\ new.gapped = row.gapped
    <2>1. /\ PushBack(row, t).first = row.first /\ PushBack(row, t).last = row.last + 1
          /\ PushBack(row, t).tiles[row.last + 1] = t
          /\ \A i \in row.first..row.last : PushBack(row, t).tiles[i] = row.tiles[i]
          /\ PushBack(row, t).y = row.y /\ PushBack(row, t).gapped = row.gapped
          /\ PushBack(row, t).rotated = row.rotated
      BY <1>1, PushedBack
    <2>2. QED
      BY <1>3, <2>1 DEF Suffixed, SameRow
  <1>5. InOrder(new) /\ (OneHeight => Level(new))
    BY <1>3, <1>4, PushedRight DEF Sound
  <1>6. ~TapAt(new, new.last)
    <2>1. t.tap = tap
      BY RightTile
    <2>2. QED
      BY <1>4, <2>1 DEF Suffixed, TapAt
  <1>7. ~new.gapped => Tapped(new)
    <2> HAVE ~new.gapped
    <2>1. Tapped(row) /\ row.blank_left = 0 /\ row.blank_right = 0 /\ ~Empty(row)
          /\ row.num_taps # 0 /\ ~row.gapped
      BY <1>4 DEF Sound, Tapped
    <2>2. t.left = RightOf(Back(row))
      BY <1>1, <2>1, RowEnds
    <2>3. max_tap_distance \in Nat /\ row.to_tap_right + t.width <= max_tap_distance
      BY <1>1, <2>1 DEF Parameters
    <2>4. /\ new.blank_left = 0 /\ new.blank_right = 0 /\ new.num_taps = row.num_taps
          /\ new.to_tap_right = row.to_tap_right + t.width
          /\ new.to_tap_left = row.to_tap_left
      BY <1>1, <1>3, <2>1
    <2>5. QED
      BY <1>1, <1>3, <1>4, <1>6, <2>1, <2>2, <2>3, <2>4, CellBehind
  <1>8. QED
    BY <1>3, <1>4, <1>5, <1>7 DEF Sound, new

\* What every operation on a row keeps.
Keeps(row, new) == new \in Rows /\ Sound(new) /\ new.rotated = row.rotated

\* The cells that are placed.
LEMMA CellShape ==
    ASSUME Parameters, NEW cell \in Placed
    PROVE  /\ cell \in Cells /\ cell.width \in Nat
           /\ OneHeight => cell.height = Tap.height
  BY DEF Parameters, Cells, OneHeight

LEMMA NotedRow ==
    ASSUME Parameters, NEW row \in Rows, Sound(row), NEW cell \in Placed
    PROVE  /\ Noted(row, cell) \in Rows /\ Sound(Noted(row, cell))
           /\ Noted(row, cell).rotated = row.rotated
           /\ ~Noted(row, cell).gapped =>
                  Noted(row, cell).with_taps /\ cell.width <= max_tap_distance
  <1> DEFINE gapped == row.gapped \/ ~row.with_taps \/ cell.width > max_tap_distance
             new == Noted(row, cell)
  <1>1. row \in AnyRows /\ gapped \in BOOLEAN /\ cell.width \in Nat /\ max_tap_distance \in Nat
    BY RowShape, CellShape DEF Parameters
  <1>2. ~gapped => ~row.gapped /\ row.with_taps /\ cell.width <= max_tap_distance
    BY <1>1
  <1> HIDE DEF gapped
  <1>3. new = [row EXCEPT !.gapped = gapped]
    BY DEF Noted, gapped
  <1>4. new \in AnyRows
    BY <1>1, <1>3, Zenon DEF AnyRows
  <1>5. /\ new.first = row.first /\ new.last = row.last /\ new.tiles = row.tiles
        /\ new.y = row.y /\ new.rotated = row.rotated /\ new.with_taps = row.with_taps
        /\ new.blank_left = row.blank_left /\ new.blank_right = row.blank_right
        /\ new.to_tap_left = row.to_tap_left /\ new.to_tap_right = row.to_tap_right
        /\ new.num_taps = row.num_taps /\ new.gapped = gapped
    BY <1>1, <1>3 DEF AnyRows
  <1> HIDE DEF new
  <1>6. /\ new \in Rows
        /\ InOrder(row) => InOrder(new)
        /\ Level(row) => Level(new)
    BY <1>4, <1>5, SameTiles
  <1>7. Tapped(row) => Tapped(new)
    BY <1>5 DEF Tapped, Empty, LeftTapIs, RightTapIs, TapsInReach, TapAt, Front, Back
  <1>8. Sound(new)
    BY <1>2, <1>5, <1>6, <1>7 DEF Sound
  <1> QED
    BY <1>2, <1>5, <1>6, <1>8 DEF new

LEMMA InstantiateBackKeeps ==
    ASSUME Parameters, NEW row \in Rows, Sound(row), NEW cell \in Placed
    PROVE  Keeps(row, InstantiateBack(row, cell))
  <1> DEFINE tap == FALSE
             row1 == Noted(row, cell)
             r == WithTapRight(row1, cell.width)
             t == TileAt(NextPointRight(r, cell), cell, tap)
             pushed == PushBack(r, t)
             placed == [pushed EXCEPT !.blank_right = 0]
  <1>1. /\ cell \in Cells /\ cell.width \in Nat
        /\ OneHeight => cell.height = Tap.height
        /\ row1 \in Rows /\ Sound(row1) /\ row1.rotated = row.rotated
        /\ ~row1.gapped => row1.with_taps /\ cell.width <= max_tap_distance
    BY CellShape, NotedRow
  <1> HIDE DEF row1
  <1>2. /\ r \in Rows /\ Sound(r) /\ r.rotated = row.rotated
        /\ ~r.gapped => ~Empty(r) /\ r.to_tap_right + cell.width <= max_tap_distance
    BY <1>1, TappedRight
  <1>3. InstantiateBack(row, cell) = AccountRight(placed, cell.width)
    BY DEF InstantiateBack, row1
  <1> HIDE DEF r, tap
  <1>4. t = TileAt(NextPointRight(r, cell), cell, tap) /\ tap \in BOOLEAN /\ ~tap
    BY DEF tap
  <1> HIDE DEF t
  <1>5. t \in Tiles
    BY <1>1, <1>2, <1>4, RightTile
  <1>6. /\ pushed \in Rows /\ pushed.num_taps = r.num_taps
        /\ pushed.to_tap_left = r.to_tap_left /\ pushed.to_tap_right = r.to_tap_right
        /\ pushed.blank_left = r.blank_left
    BY <1>2, <1>5, PushedBack
  <1>7. pushed = PushBack(r, t)
    OBVIOUS
  <1> HIDE DEF pushed
  <1>8. placed \in AnyRows
    BY <1>6, RowShape, 0 \in Nat, Zenon DEF AnyRows
  <1>9. /\ SameRow(pushed, placed) /\ placed.num_taps = pushed.num_taps
        /\ placed.to_tap_left = pushed.to_tap_left /\ placed.to_tap_right = pushed.to_tap_right
        /\ placed.blank_left = pushed.blank_left /\ placed.blank_right = 0
    BY <1>6, RowShape DEF AnyRows, SameRow
  <1> HIDE DEF placed
  <1>10. placed \in Rows
    BY <1>6, <1>8, <1>9, SameTiles DEF SameRow
  <1>11. /\ SameRow(PushBack(r, t), placed) /\ placed.num_taps = r.num_taps
         /\ placed.to_tap_left = r.to_tap_left /\ placed.to_tap_right = r.to_tap_right
         /\ (placed.blank_left = 0 \/ placed.blank_left = r.blank_left) /\ (placed.blank_right = 0 \/ placed.blank_right = r.blank_right)
         /\ placed.blank_left = r.blank_left
    BY <1>6, <1>7, <1>9
  <1>12. QED
    BY <1>1, <1>2, <1>3, <1>4, <1>10, <1>11, PlacedRight DEF Keeps

LEMMA InstantiateFrontKeeps ==
    ASSUME Parameters, NEW row \in Rows, Sound(row), NEW cell \in Placed
    PROVE  Keeps(row, InstantiateFront(row, cell))
  <1> DEFINE tap == FALSE
             row1 == Noted(row, cell)
             r == WithTapLeft(row1, cell.width)
             t == TileAt(NextPointLeft(r, cell), cell, tap)
             pushed == PushFront(r, t)
             placed == [pushed EXCEPT !.blank_left = 0]
  <1>1. /\ cell \in Cells /\ cell.width \in Nat
        /\ OneHeight => cell.height = Tap.height
        /\ row1 \in Rows /\ Sound(row1) /\ row1.rotated = row.rotated
        /\ ~row1.gapped => row1.with_taps /\ cell.width <= max_tap_distance
    BY CellShape, NotedRow
  <1> HIDE DEF row1
  <1>2. /\ r \in Rows /\ Sound(r) /\ r.rotated = row.rotated
        /\ ~r.gapped => ~Empty(r) /\ r.to_tap_left + cell.width <= max_tap_distance
    BY <1>1, TappedLeft
  <1>3. InstantiateFront(row, cell) = AccountLeft(placed, cell.width)
    BY DEF InstantiateFront, row1
  <1> HIDE DEF r, tap
  <1>4. t = TileAt(NextPointLeft(r, cell), cell, tap) /\ tap \in BOOLEAN /\ ~tap
    BY DEF tap
  <1> HIDE DEF t
  <1>5. t \in Tiles
    BY <1>1, <1>2, <1>4, LeftTile
  <1>6. /\ pushed \in Rows /\ pushed.num_taps = r.num_taps
        /\ pushed.to_tap_left = r.to_tap_left /\ pushed.to_tap_right = r.to_tap_right
        /\ pushed.blank_right = r.blank_right
    BY <1>2, <1>5, PushedFront
  <1>7. pushed = PushFront(r, t)
    OBVIOUS
  <1> HIDE DEF pushed
  <1>8. placed \in AnyRows
    BY <1>6, RowShape, 0 \in Nat, Zenon DEF AnyRows
  <1>9. /\ SameRow(pushed, placed) /\ placed.num_taps = pushed.num_taps
        /\ placed.to_tap_left = pushed.to_tap_left /\ placed.to_tap_right = pushed.to_tap_right
        /\ placed.blank_right = pushed.blank_right /\ placed.blank_left = 0
    BY <1>6, RowShape DEF AnyRows, SameRow
  <1> HIDE DEF placed
  <1>10. placed \in Rows
    BY <1>6, <1>8, <1>9, SameTiles DEF SameRow
  <1>11. /\ SameRow(PushFront(r, t), placed) /\ placed.num_taps = r.num_taps
         /\ placed.to_tap_left = r.to_tap_left /\ placed.to_tap_right = r.to_tap_right
         /\ (placed.blank_left = 0 \/ placed.blank_left = r.blank_left) /\ (placed.blank_right = 0 \/ placed.blank_right = r.blank_right)
         /\ placed.blank_right = r.blank_right
    BY <1>6, <1>7, <1>9
  <1>12. QED
    BY <1>1, <1>2, <1>3, <1>4, <1>10, <1>11, PlacedLeft DEF Keeps

LEMMA FrontXIsInt ==
    ASSUME NEW row \in Rows
    PROVE  FrontX(row) \in Int
  BY RowShape, RowEnds DEF FrontX

LEMMA InstantiateAndInsertFrontKeeps ==
    ASSUME Parameters, NEW row \in Rows, Sound(row), NEW cell \in Placed
    PROVE  Keeps(row, InstantiateAndInsertFront(row, cell))
  <1> DEFINE tap == FALSE
             row1 == Noted(row, cell)
             r == WithTapLeft(row1, cell.width)
             t == TileAt(NextPointLeft(r, cell), cell, tap)
             pushed == PushFront(r, t)
             placed == AccountLeft(pushed, cell.width)
             by == FrontX(row) - FrontX(placed)
  <1>1. /\ cell \in Cells /\ cell.width \in Nat
        /\ OneHeight => cell.height = Tap.height
        /\ row1 \in Rows /\ Sound(row1) /\ row1.rotated = row.rotated
        /\ ~row1.gapped => row1.with_taps /\ cell.width <= max_tap_distance
    BY CellShape, NotedRow
  <1> HIDE DEF row1
  <1>2. /\ r \in Rows /\ Sound(r) /\ r.rotated = row.rotated
        /\ ~r.gapped => ~Empty(r) /\ r.to_tap_left + cell.width <= max_tap_distance
    BY <1>1, TappedLeft
  <1>3. InstantiateAndInsertFront(row, cell) = Shifted(placed, by)
    BY DEF InstantiateAndInsertFront, row1
  <1> HIDE DEF r, tap
  <1>4. t = TileAt(NextPointLeft(r, cell), cell, tap) /\ tap \in BOOLEAN /\ ~tap
    BY DEF tap
  <1> HIDE DEF t
  <1>5. t \in Tiles
    BY <1>1, <1>2, <1>4, LeftTile
  <1>6. /\ pushed \in Rows /\ pushed.num_taps = r.num_taps
        /\ pushed.to_tap_left = r.to_tap_left /\ pushed.to_tap_right = r.to_tap_right
        /\ pushed.blank_right = r.blank_right /\ pushed.blank_left = r.blank_left
    BY <1>2, <1>5, PushedFront
  <1>7. SameRow(PushFront(r, t), pushed)
    BY DEF SameRow
  <1> HIDE DEF pushed
  <1>8. placed \in Rows /\ Sound(placed) /\ placed.rotated = r.rotated
    BY <1>1, <1>2, <1>4, <1>6, <1>7, PlacedLeft
  <1> HIDE DEF placed
  <1>9. by \in Int
    BY <1>8, FrontXIsInt
  <1> HIDE DEF by
  <1>10. QED
    BY <1>2, <1>3, <1>8, <1>9, ShiftedRow, MovedIsSound, 0 \in Int DEF Keeps, Parameters

\* Of rows with blank space nothing is said of taps.
LEMMA BlankBackKeeps ==
    ASSUME Parameters, NEW row \in Rows, Sound(row), NEW span \in Spans
    PROVE  Keeps(row, AddBlankSpaceBack(row, span))
  <1> DEFINE r == WithTapRight(row, span)
             s == AccountRight(r, span)
             new == [s EXCEPT !.blank_right = @ + span, !.gapped = TRUE]
  <1>1. span \in Nat
    BY DEF Parameters
  <1>2. r \in Rows /\ Sound(r) /\ r.rotated = row.rotated
    BY <1>1, TappedRight
  <1>3. new = AddBlankSpaceBack(row, span)
    BY DEF AddBlankSpaceBack
  <1> HIDE DEF r
  <1>4. s \in Rows /\ SameRow(r, s)
    BY <1>1, <1>2, AccountedRight
  <1> HIDE DEF s
  <1>5. s \in AnyRows /\ s.blank_right + span \in Nat
    BY <1>1, <1>4, RowShape
  <1>6. new \in AnyRows
    BY <1>5, TRUE \in BOOLEAN, Zenon DEF AnyRows
  <1>7. /\ new.first = s.first /\ new.last = s.last /\ new.tiles = s.tiles
        /\ new.y = s.y /\ new.rotated = s.rotated /\ new.gapped = TRUE
    BY <1>5 DEF AnyRows
  <1> HIDE DEF new
  <1>8. /\ new \in AnyRows /\ new.first = r.first /\ new.last = r.last
        /\ new.tiles = r.tiles /\ new.y = r.y /\ new.rotated = r.rotated
    BY <1>4, <1>6, <1>7 DEF SameRow
  <1>9. QED
    BY <1>1, <1>2, <1>3, <1>7, <1>8, SameTiles DEF Keeps, Sound

LEMMA BlankFrontKeeps ==
    ASSUME Parameters, NEW row \in Rows, Sound(row), NEW span \in Spans
    PROVE  Keeps(row, AddBlankSpaceFront(row, span))
  <1> DEFINE r == WithTapLeft(row, span)
             s == AccountLeft(r, span)
             new == [s EXCEPT !.blank_left = @ + span, !.gapped = TRUE]
  <1>1. span \in Nat
    BY DEF Parameters
  <1>2. r \in Rows /\ Sound(r) /\ r.rotated = row.rotated
    BY <1>1, TappedLeft
  <1>3. new = AddBlankSpaceFront(row, span)
    BY DEF AddBlankSpaceFront
  <1> HIDE DEF r
  <1>4. s \in Rows /\ SameRow(r, s)
    BY <1>1, <1>2, AccountedLeft
  <1> HIDE DEF s
  <1>5. s \in AnyRows /\ s.blank_left + span \in Nat
    BY <1>1, <1>4, RowShape
  <1>6. new \in AnyRows
    BY <1>5, TRUE \in BOOLEAN, Zenon DEF AnyRows
  <1>7. /\ new.first = s.first /\ new.last = s.last /\ new.tiles = s.tiles
        /\ new.y = s.y /\ new.rotated = s.rotated /\ new.gapped = TRUE
    BY <1>5 DEF AnyRows
  <1> HIDE DEF new
  <1>8. /\ new \in AnyRows /\ new.first = r.first /\ new.last = r.last
        /\ new.tiles = r.tiles /\ new.y = r.y /\ new.rotated = r.rotated
    BY <1>4, <1>6, <1>7 DEF SameRow
  <1>9. QED
    BY <1>1, <1>2, <1>3, <1>7, <1>8, SameTiles DEF Keeps, Sound

LEMMA BlankInsertedKeeps ==
    ASSUME Parameters, NEW row \in Rows, Sound(row), NEW span \in Spans
    PROVE  Keeps(row, AddBlankSpaceAndInsertFront(row, span))
  <1> DEFINE r == WithTapLeft(row, span)
             s == AccountLeft(r, span)
             u == [s EXCEPT !.gapped = TRUE]
             new == [u EXCEPT !.blank_right = @ + span]
             by == FrontX(row) - (FrontX(u) - span)
  <1>1. span \in Nat /\ max_tap_distance \in Nat
    BY DEF Parameters
  <1>2. r \in Rows /\ Sound(r) /\ r.rotated = row.rotated
    BY <1>1, TappedLeft
  <1>3. /\ Empty(u) => AddBlankSpaceAndInsertFront(row, span) = new
        /\ ~Empty(u) => AddBlankSpaceAndInsertFront(row, span) = Shifted(u, by)
    BY DEF AddBlankSpaceAndInsertFront
  <1> HIDE DEF r
  <1>4. s \in Rows /\ SameRow(r, s)
    BY <1>1, <1>2, AccountedLeft
  <1> HIDE DEF s
  <1>5. s \in AnyRows
    BY <1>4, RowShape
  <1>6. u \in AnyRows
    BY <1>5, TRUE \in BOOLEAN, Zenon DEF AnyRows
  <1>7. /\ u.first = s.first /\ u.last = s.last /\ u.tiles = s.tiles
        /\ u.y = s.y /\ u.rotated = s.rotated /\ u.gapped = TRUE
    BY <1>5 DEF AnyRows
  <1> HIDE DEF u
  <1>8. Keeps(row, u)
    BY <1>2, <1>4, <1>6, <1>7, SameTiles DEF Keeps, Sound, SameRow
  <1>9. u.blank_right + span \in Nat
    BY <1>1, <1>8, RowShape DEF Keeps
  <1>10. new \in AnyRows
    BY <1>6, <1>9, Zenon DEF AnyRows
  <1>11. /\ new.first = u.first /\ new.last = u.last /\ new.tiles = u.tiles
         /\ new.y = u.y /\ new.rotated = u.rotated /\ new.gapped = u.gapped
    BY <1>6 DEF AnyRows
  <1> HIDE DEF new
  <1>12. Keeps(row, new)
    BY <1>7, <1>8, <1>10, <1>11, SameTiles DEF Keeps, Sound
  <1>13. by \in Int
    BY <1>1, <1>8, FrontXIsInt DEF Keeps
  <1> HIDE DEF by
  <1>14. Keeps(row, Shifted(u, by))
    BY <1>1, <1>8, <1>13, ShiftedRow, MovedIsSound, 0 \in Int DEF Keeps
  <1>15. QED
    BY <1>3, <1>12, <1>14

LEMMA SetTapsKeeps ==
    ASSUME Parameters, NEW row \in Rows, Sound(row), NEW on \in Switched
    PROVE  Keeps(row, SetTaps(row, on))
  <1> DEFINE new == SetTaps(row, on)
  <1>1. on \in BOOLEAN
    BY DEF Parameters
  <1>2. row \in AnyRows
    BY RowShape
  <1>3. new \in AnyRows
    BY <1>1, <1>2, Zenon DEF AnyRows, SetTaps
  <1>4. /\ new.first = row.first /\ new.last = row.last /\ new.tiles = row.tiles
        /\ new.y = row.y /\ new.rotated = row.rotated /\ new.gapped = row.gapped
        /\ new.blank_left = row.blank_left /\ new.blank_right = row.blank_right
        /\ new.to_tap_left = row.to_tap_left /\ new.to_tap_right = row.to_tap_right
        /\ new.num_taps = row.num_taps
    BY <1>2 DEF AnyRows, SetTaps
  <1> HIDE DEF new
  <1>5. Tapped(row) => Tapped(new)
    BY <1>4 DEF Tapped, Empty, LeftTapIs, RightTapIs, TapsInReach, TapAt, Front, Back
  <1>6. Keeps(row, new)
    BY <1>3, <1>4, <1>5, SameTiles DEF Keeps, Sound
  <1>7. QED
    BY <1>6 DEF new

LEMMA MoveToKeeps ==
    ASSUME Parameters, NEW row \in Rows, Sound(row), NEW x \in Int, NEW y \in Int
    PROVE  Keeps(row, MoveTo(row, x, y))
  BY MovedRow, MovedIsSound DEF Keeps, Parameters

LEMMA ChangesKeep ==
    ASSUME Parameters, NEW row \in Rows, Sound(row), NEW new \in Changes(row)
    PROVE  Keeps(row, new)
  <1>1. CASE \E c \in Placed : \/ new = InstantiateBack(row, c)
                               \/ new = InstantiateFront(row, c)
                               \/ new = InstantiateAndInsertFront(row, c)
    BY <1>1, InstantiateBackKeeps, InstantiateFrontKeeps, InstantiateAndInsertFrontKeeps
  <1>2. CASE \E s \in Spans : \/ new = AddBlankSpaceBack(row, s)
                              \/ new = AddBlankSpaceFront(row, s)
                              \/ new = AddBlankSpaceAndInsertFront(row, s)
    BY <1>2, BlankBackKeeps, BlankFrontKeeps, BlankInsertedKeeps
  <1>3. CASE \E on \in Switched : new = SetTaps(row, on)
    BY <1>3, SetTapsKeeps
  <1>4. QED
    BY <1>1, <1>2, <1>3 DEF Changes

-----------------------------------------------------------------------------
(* The bank.                                                                *)

Good(bank, first) ==
    /\ bank \in Seq(Rows)
    /\ \A i \in 1..Len(bank) :
           /\ Sound(bank[i])
           /\ rotate_alternate_rows => bank[i].rotated = Rotated(first, i - 1)

BankInv == Good(rows, rotate_first_row) /\ rotate_first_row \in BOOLEAN

LEMMA BankRows ==
    ASSUME Parameters, NEW y \in Int, NEW first \in BOOLEAN, NEW index \in Nat
    PROVE  /\ BankRow(y, first, index) \in Rows /\ Sound(BankRow(y, first, index))
           /\ rotate_alternate_rows =>
                  BankRow(y, first, index).rotated = Rotated(first, index)
  <1> DEFINE turned == rotate_alternate_rows /\ Rotated(first, index)
             row == NewRow(0, y, turned, has_tap_cell)
  <1>1. turned \in BOOLEAN /\ has_tap_cell \in BOOLEAN
    BY DEF Parameters
  <1>2. rotate_alternate_rows => turned = Rotated(first, index)
    BY DEF Rotated
  <1>3. BankRow(y, first, index) = row
    BY DEF BankRow
  <1> HIDE DEF turned
  <1>4. /\ row \in Rows /\ Empty(row) /\ row.rotated = turned /\ row.with_taps = has_tap_cell
        /\ row.num_taps = 0 /\ row.to_tap_left = 0 /\ row.to_tap_right = 0
        /\ row.blank_left = 0 /\ row.blank_right = 0
    <2>1. row \in Rows /\ Empty(row)
      BY <1>1, NewRows, 0 \in Int
    <2>2. /\ row.rotated = turned /\ row.with_taps = has_tap_cell
          /\ row.num_taps = 0 /\ row.to_tap_left = 0 /\ row.to_tap_right = 0
          /\ row.blank_left = 0 /\ row.blank_right = 0
      BY DEF NewRow
    <2>3. QED
      BY <2>1, <2>2, Zenon
  <1> HIDE DEF row
  <1>5. \A i \in row.first..row.last : FALSE
    BY <1>4, RowShape DEF Empty
  <1>6. Sound(row)
    <2>1. InOrder(row) /\ Level(row) /\ TapsInReach(row)
          /\ LeftTapIs(row, row.to_tap_left) /\ RightTapIs(row, row.to_tap_right)
      BY <1>5 DEF InOrder, Level, TapsInReach, LeftTapIs, RightTapIs
    <2>2. Tapped(row)
      BY <1>4, <2>1 DEF Tapped, Parameters
    <2>3. QED
      BY <2>1, <2>2 DEF Sound
  <1>7. QED
    BY <1>2, <1>3, <1>4, <1>6

LEMMA UpToIsGood ==
    ASSUME Parameters, BankInv, NEW index \in Nat
    PROVE  /\ Good(RowsUpTo(index), rotate_first_row)
           /\ index + 1 \in 1..Len(RowsUpTo(index))
  <1> DEFINE y == IF NumRows = 0 THEN 0 ELSE HighY(rows[NumRows])
             n == Greater(NumRows, index + 1)
             row(i) == IF i <= NumRows THEN rows[i] ELSE BankRow(y, rotate_first_row, i - 1)
             bank == [i \in 1..n |-> row(i)]
  <1>1. NumRows \in Nat /\ rows \in Seq(Rows)
    BY DEF BankInv, Good, NumRows
  <1>2. n \in Nat /\ NumRows <= n /\ index + 1 <= n
    BY <1>1 DEF Greater
  <1>3. y \in Int
    <2> SUFFICES ASSUME NumRows # 0
                 PROVE  HighY(rows[NumRows]) \in Int
      OBVIOUS
    <2>1. rows[NumRows] \in Rows
      BY <1>1 DEF NumRows
    <2>2. \A r \in Rows : HighY(r) \in Int
      <3> SUFFICES ASSUME NEW r \in Rows
                   PROVE  HighY(r) \in Int
        OBVIOUS
      <3>1. CASE Empty(r)
        BY <3>1, RowShape DEF HighY
      <3>2. CASE ~Empty(r)
        <4>1. r.first \in r.first..r.last
          BY <3>2, RowShape DEF Empty
        <4>2. QED
          BY <3>2, <4>1, RowShape DEF HighY, Front
      <3>3. QED
        BY <3>1, <3>2
    <2>3. QED
      BY <2>1, <2>2
  <1>4. bank = RowsUpTo(index)
    BY DEF RowsUpTo
  <1> HIDE DEF y, n
  <1>5. \A i \in 1..n : /\ row(i) \in Rows /\ Sound(row(i))
                        /\ rotate_alternate_rows =>
                               row(i).rotated = Rotated(rotate_first_row, i - 1)
    <2> SUFFICES ASSUME NEW i \in 1..n
                 PROVE  /\ row(i) \in Rows /\ Sound(row(i))
                        /\ rotate_alternate_rows =>
                               row(i).rotated = Rotated(rotate_first_row, i - 1)
      BY Zenon
    <2>1. CASE i <= NumRows
      <3>1. i \in 1..Len(rows) /\ row(i) = rows[i]
        BY <1>1, <1>2, <2>1 DEF NumRows
      <3> HIDE DEF row
      <3>2. QED
        BY <1>1, <3>1 DEF BankInv, Good
    <2>2. CASE ~(i <= NumRows)
      <3>1. i - 1 \in Nat /\ row(i) = BankRow(y, rotate_first_row, i - 1)
        BY <1>1, <1>2, <2>2
      <3> HIDE DEF row
      <3>2. QED
        BY <1>3, <3>1, BankRows DEF BankInv
    <2>3. QED
      BY <2>1, <2>2
  <1> HIDE DEF row
  <1>6. bank \in Seq(Rows) /\ Len(bank) = n /\ \A i \in 1..n : bank[i] = row(i)
    BY <1>2, <1>5
  <1> HIDE DEF bank
  <1>7. Good(bank, rotate_first_row)
    BY <1>5, <1>6 DEF Good
  <1>8. QED
    BY <1>2, <1>4, <1>6, <1>7

LEMMA OneRowChanges ==
    ASSUME NEW bank, NEW first, Good(bank, first), NEW k \in 1..Len(bank),
           NEW new, Keeps(bank[k], new)
    PROVE  Good([bank EXCEPT ![k] = new], first)
  <1> DEFINE after == [bank EXCEPT ![k] = new]
  <1>1. bank \in Seq(Rows) /\ new \in Rows
    BY DEF Good, Keeps
  <1>2. /\ after \in Seq(Rows) /\ Len(after) = Len(bank)
        /\ after[k] = new /\ \A i \in 1..Len(bank) : i # k => after[i] = bank[i]
    BY <1>1
  <1> HIDE DEF after
  <1>3. \A i \in 1..Len(after) :
            /\ Sound(after[i])
            /\ rotate_alternate_rows => after[i].rotated = Rotated(first, i - 1)
    BY <1>2 DEF Good, Keeps
  <1>4. Good(after, first)
    BY <1>2, <1>3 DEF Good
  <1>5. QED
    BY <1>4 DEF after

\* All rows are moved.
LEMMA RowsMove ==
    ASSUME Parameters, NEW bank, NEW first, Good(bank, first),
           NEW x \in [1..Len(bank) -> Int], NEW y \in [1..Len(bank) -> Int]
    PROVE  Good([i \in 1..Len(bank) |-> MoveTo(bank[i], x[i], y[i])], first)
  <1> DEFINE after == [i \in 1..Len(bank) |-> MoveTo(bank[i], x[i], y[i])]
  <1>1. bank \in Seq(Rows) /\ Len(bank) \in Nat
    BY DEF Good
  <1>2. \A i \in 1..Len(bank) : Keeps(bank[i], MoveTo(bank[i], x[i], y[i]))
    <2> SUFFICES ASSUME NEW i \in 1..Len(bank)
                 PROVE  Keeps(bank[i], MoveTo(bank[i], x[i], y[i]))
      OBVIOUS
    <2>1. bank[i] \in Rows /\ Sound(bank[i]) /\ x[i] \in Int /\ y[i] \in Int
      BY <1>1 DEF Good
    <2>2. QED
      BY <2>1, MoveToKeeps
  <1>3. /\ after \in Seq(Rows) /\ Len(after) = Len(bank)
        /\ \A i \in 1..Len(bank) : after[i] = MoveTo(bank[i], x[i], y[i])
    BY <1>1, <1>2 DEF Keeps
  <1> HIDE DEF after
  <1>4. \A i \in 1..Len(after) :
            /\ Sound(after[i])
            /\ rotate_alternate_rows => after[i].rotated = Rotated(first, i - 1)
    BY <1>2, <1>3 DEF Good, Keeps
  <1>5. Good(after, first)
    BY <1>3, <1>4 DEF Good
  <1>6. QED
    BY <1>5 DEF after

LEMMA FixedIsGood ==
    ASSUME Parameters, NEW before, NEW first, Good(before, first), NEW after, Fixed(before, after)
    PROVE  Good(after, first)
  <1>1. PICK y \in [1..Len(before) -> Positions], x \in [1..Len(before) -> Positions] :
            after = [i \in 1..Len(before) |-> MoveTo(before[i], x[i], y[i])]
    BY Zenon DEF Fixed
  <1>2. x \in [1..Len(before) -> Int] /\ y \in [1..Len(before) -> Int]
    BY DEF Parameters
  <1>3. QED
    BY <1>1, <1>2, RowsMove

\* The invariant is inductive.
LEMMA BankStep ==
    ASSUME Parameters, BankInv, [Next]_vars
    PROVE  BankInv'
  <1>1. \A i \in 0..MaxRows - 1 : i \in Nat
    BY DEF Parameters
  <1>2. ASSUME NEW index \in 0..MaxRows - 1, NEW cell \in Placed, InstantiateRight(index, cell)
        PROVE  BankInv'
    <2> DEFINE bank == RowsUpTo(index)
               new == InstantiateBack(bank[index + 1], cell)
               before == [bank EXCEPT ![index + 1] = new]
    <2>1. Good(bank, rotate_first_row) /\ index + 1 \in 1..Len(bank)
      BY <1>1, UpToIsGood
    <2>2. Fixed(before, rows') /\ rotate_first_row' = rotate_first_row
      BY <1>2 DEF InstantiateRight
    <2> HIDE DEF bank
    <2>3. Keeps(bank[index + 1], new)
      BY <2>1, InstantiateBackKeeps DEF Good
    <2> HIDE DEF new
    <2>4. Good(before, rotate_first_row)
      BY <2>1, <2>3, OneRowChanges
    <2> HIDE DEF before
    <2>5. QED
      BY <2>2, <2>4, FixedIsGood DEF BankInv
  <1>3. ASSUME NEW index \in 0..MaxRows - 1, NEW cell \in Placed, InstantiateLeft(index, cell)
        PROVE  BankInv'
    <2> DEFINE bank == RowsUpTo(index)
               new == InstantiateAndInsertFront(bank[index + 1], cell)
               before == [bank EXCEPT ![index + 1] = new]
    <2>1. Good(bank, rotate_first_row) /\ index + 1 \in 1..Len(bank)
      BY <1>1, UpToIsGood
    <2>2. Fixed(before, rows') /\ rotate_first_row' = rotate_first_row
      BY <1>3 DEF InstantiateLeft
    <2> HIDE DEF bank
    <2>3. Keeps(bank[index + 1], new)
      BY <2>1, InstantiateAndInsertFrontKeeps DEF Good
    <2> HIDE DEF new
    <2>4. Good(before, rotate_first_row)
      BY <2>1, <2>3, OneRowChanges
    <2> HIDE DEF before
    <2>5. QED
      BY <2>2, <2>4, FixedIsGood DEF BankInv
  <1>4. ASSUME NEW index \in 0..MaxRows - 1, Row(index)
        PROVE  BankInv'
    BY <1>1, <1>4, UpToIsGood DEF Row, BankInv
  <1>5. ASSUME NEW index \in 0..MaxRows - 1, UseRow(index)
        PROVE  BankInv'
    <2> DEFINE bank == RowsUpTo(index)
    <2>1. Good(bank, rotate_first_row) /\ index + 1 \in 1..Len(bank)
      BY <1>1, UpToIsGood
    <2>2. PICK new \in Changes(bank[index + 1]) : rows' = [bank EXCEPT ![index + 1] = new]
      BY <1>5 DEF UseRow
    <2>3. rotate_first_row' = rotate_first_row
      BY <1>5 DEF UseRow
    <2> HIDE DEF bank
    <2>4. Keeps(bank[index + 1], new)
      BY <2>1, ChangesKeep DEF Good
    <2>5. QED
      BY <2>1, <2>2, <2>3, <2>4, OneRowChanges DEF BankInv
  <1>6. ASSUME InsertRowZero
        PROVE  BankInv'
    <2>1. PICK y \in Positions : rows' = <<BankRow(y, rotate_first_row', 0)>> \o rows
      BY <1>6 DEF InsertRowZero
    <2>2. /\ rotate_first_row' = (rotate_first_row # rotate_alternate_rows)
          /\ y \in Int /\ rotate_first_row' \in BOOLEAN
      BY <1>6 DEF InsertRowZero, Parameters
    <2> DEFINE row == BankRow(y, rotate_first_row', 0)
    <2>3. /\ row \in Rows /\ Sound(row)
          /\ rotate_alternate_rows => row.rotated = Rotated(rotate_first_row', 0)
      BY <2>2, BankRows
    <2> HIDE DEF row
    <2>4. /\ rows \in Seq(Rows)
          /\ \A i \in 1..Len(rows) :
                 /\ Sound(rows[i])
                 /\ rotate_alternate_rows => rows[i].rotated = Rotated(rotate_first_row, i - 1)
      BY DEF BankInv, Good
    <2>5. rotate_alternate_rows =>
              \A n \in Nat : Rotated(rotate_first_row, n) = Rotated(rotate_first_row', n + 1)
      <3> SUFFICES ASSUME rotate_alternate_rows, NEW n \in Nat
                   PROVE  Rotated(rotate_first_row, n) = Rotated(rotate_first_row', n + 1)
        OBVIOUS
      <3>1. n % 2 = 0 <=> ~((n + 1) % 2 = 0)
        OBVIOUS
      <3>2. rotate_first_row' <=> ~rotate_first_row
        BY <2>2 DEF BankInv, Parameters
      <3>3. QED
        BY <3>1, <3>2, <2>2 DEF Rotated, BankInv
    <2>6. /\ rows' \in Seq(Rows) /\ Len(rows') = Len(rows) + 1 /\ Len(rows) \in Nat
          /\ rows'[1] = row /\ \A i \in 1..Len(rows) : rows'[i + 1] = rows[i]
      BY <2>1, <2>3, <2>4 DEF row
    <2>7. ASSUME NEW i \in 1..Len(rows')
          PROVE  /\ Sound(rows'[i])
                 /\ rotate_alternate_rows => rows'[i].rotated = Rotated(rotate_first_row', i - 1)
      <3>1. CASE i = 1
        BY <2>3, <2>6, <3>1
      <3>2. CASE i # 1
        <4>1. i - 1 \in 1..Len(rows) /\ i - 2 \in Nat /\ rows'[i] = rows[i - 1]
              /\ (i - 1) - 1 = i - 2 /\ (i - 2) + 1 = i - 1
          <5>1. i - 1 \in 1..Len(rows) /\ (i - 1) + 1 = i
            BY <2>6, <3>2
          <5>2. QED
            BY <2>6, <5>1
        <4>2. Sound(rows[i - 1]) /\ (rotate_alternate_rows =>
                  rows[i - 1].rotated = Rotated(rotate_first_row, i - 2))
          BY <2>4, <4>1
        <4>3. rotate_alternate_rows =>
                  Rotated(rotate_first_row, i - 2) = Rotated(rotate_first_row', i - 1)
          BY <2>5, <4>1
        <4>4. QED
          BY <4>1, <4>2, <4>3
      <3>3. QED
        BY <3>1, <3>2
    <2>8. Good(rows', rotate_first_row')
      BY <2>6, <2>7 DEF Good
    <2>9. QED
      BY <2>2, <2>8 DEF BankInv
  <1>7. ASSUME NEW x \in Positions, NEW y \in Positions, MoveBank(x, y)
        PROVE  BankInv'
    <2> DEFINE xs == [i \in 1..Len(rows) |-> x + (rows[i].x - rows[1].x)]
               ys == [i \in 1..Len(rows) |-> y + (rows[i].y - rows[1].y)]
    <2>1. x \in Int /\ y \in Int /\ Good(rows, rotate_first_row) /\ rows \in Seq(Rows)
      BY DEF Parameters, BankInv, Good
    <2>2. \A i \in 1..Len(rows) : /\ rows[i].x \in Int /\ rows[i].y \in Int
                                  /\ rows[1].x \in Int /\ rows[1].y \in Int
      <3> SUFFICES ASSUME NEW i \in 1..Len(rows)
                   PROVE  /\ rows[i].x \in Int /\ rows[i].y \in Int
                          /\ rows[1].x \in Int /\ rows[1].y \in Int
        OBVIOUS
      <3>1. rows[i] \in Rows /\ rows[1] \in Rows
        BY <2>1
      <3>2. QED
        BY <3>1, RowShape
    <2>3. xs \in [1..Len(rows) -> Int] /\ ys \in [1..Len(rows) -> Int]
      BY <2>1, <2>2
    <2>4. rows' = [i \in 1..Len(rows) |-> MoveTo(rows[i], xs[i], ys[i])]
      BY <1>7 DEF MoveBank, NumRows
    <2> HIDE DEF xs, ys
    <2>5. Good(rows', rotate_first_row)
      BY <2>1, <2>3, <2>4, RowsMove
    <2>6. QED
      BY <1>7, <2>5 DEF MoveBank, BankInv
  <1>8. CASE UNCHANGED vars
    BY <1>8 DEF vars, BankInv
  <1>9. ASSUME Place
        PROVE  BankInv'
    BY <1>2, <1>3, <1>9, Zenon DEF Place, InstantiateInside
  <1>10. QED
    BY <1>4, <1>5, <1>6, <1>7, <1>8, <1>9 DEF Next

THEOREM BankInvariant ==
    ASSUME Parameters
    PROVE  Spec => []BankInv
  <1>1. Init => BankInv
    BY DEF Init, BankInv, Good
  <1>2. BankInv /\ [Next]_vars => BankInv'
    BY BankStep
  <1>3. QED
    BY <1>1, <1>2, PTL DEF Spec

\* Whatever is placed, moved, left blank or inserted, and whatever taps are put
\* in between (row_guide.cc), the instances of a row never overlap and stay in
\* their order.
THEOREM RowsStayInOrder ==
    ASSUME Parameters
    PROVE  Spec => []RowsInOrder
  <1>1. BankInv => RowsInOrder
    BY DEF BankInv, Good, Sound, RowsInOrder, NumRows
  <1>2. QED
    BY <1>1, BankInvariant, PTL

\* Rows that touch stay turned against each other (memory_bank.cc: Row and
\* InsertRowZero), however many are put below the first and in whichever order
\* the others were asked for.
THEOREM RowsStayAlternate ==
    ASSUME Parameters
    PROVE  Spec => []RowsAlternate
  <1>1. BankInv => RowsAlternate
    BY DEF BankInv, Good, RowsAlternate, NumRows
  <1>2. QED
    BY <1>1, BankInvariant, PTL

\* Nothing placed in a row is farther from a tap than max_tap_distance
\* (row_guide.cc: NeedsTap), from whichever end and in whatever turns the row grows, and
\* whatever happens in other rows of the bank, for as long as no space is left blank in
\* it and its cells are put in while it has taps and are not too wide themselves.
THEOREM RowsStayInReach ==
    ASSUME Parameters
    PROVE  Spec => []RowsInReach
  <1>1. BankInv => RowsInReach
    <2> SUFFICES ASSUME BankInv, NEW i \in 1..NumRows, ~rows[i].gapped
                 PROVE  TapsInReach(rows[i]) /\ EndsInReach(rows[i])
      BY DEF RowsInReach
    <2>1. Tapped(rows[i])
      BY DEF BankInv, Good, Sound, NumRows
    <2>2. EndsInReach(rows[i])
      BY <2>1 DEF Tapped, LeftTapIs, RightTapIs, EndsInReach
    <2>3. QED
      BY <2>1, <2>2 DEF Tapped
  <1>2. QED
    BY <1>1, BankInvariant, PTL

\* What goes wrong with blank space (row_guide.cc: AddBlankSpaceBack and
\* MaybeAddTapRightFor): a tap that is put in behind it leaves it as blank once more for
\* the cell that follows, and the distance that is kept from the tap to the end of the
\* row is less than the real one by all of it, so that the next tap comes too late.
THEOREM BlankSpaceIsForgotten ==
    ASSUME Parameters, NEW row \in Rows, ~Empty(row), NEW cell \in Placed,
           NeedsTap(row, row.to_tap_right, cell.width)
    PROVE  LET new == InstantiateBack(row, cell)
               tap == new.tiles[row.last + 1]
           IN /\ new.last = row.last + 2 /\ TapAt(new, row.last + 1)
              /\ tap.left = RightOf(Back(row)) + row.blank_right
              /\ Back(new).left = RightOf(tap) + row.blank_right
              /\ new.to_tap_right = cell.width
              /\ RightOf(Back(new)) - RightOf(tap) = new.to_tap_right + row.blank_right
  <1> DEFINE yes == TRUE
             no == FALSE
             row1 == Noted(row, cell)
             t == TileAt(NextPointRight(row1, Tap), Tap, yes)
             r0 == PushBack(row1, t)
             r == [r0 EXCEPT !.num_taps = @ + 1, !.to_tap_right = 0]
             u == TileAt(NextPointRight(r, cell), cell, no)
             r2 == PushBack(r, u)
             placed == [r2 EXCEPT !.blank_right = 0]
             new == AccountRight(placed, cell.width)
  <1>1. Tap \in Cells /\ cell \in Cells /\ cell.width \in Nat /\ max_tap_distance \in Nat
    BY CellShape DEF Parameters
  <1>2. /\ row1 \in Rows /\ row1.first = row.first /\ row1.last = row.last
        /\ row1.tiles = row.tiles /\ row1.blank_right = row.blank_right
        /\ NeedsTap(row1, row1.to_tap_right, cell.width)
    <2>1. row \in AnyRows /\ (row.gapped \/ ~row.with_taps \/ cell.width > max_tap_distance) \in BOOLEAN
      BY RowShape, <1>1
    <2>2. row1 \in AnyRows
      BY <2>1, Zenon DEF AnyRows, Noted
    <2>3. /\ row1.first = row.first /\ row1.last = row.last /\ row1.tiles = row.tiles
          /\ row1.blank_right = row.blank_right /\ row1.to_tap_right = row.to_tap_right
          /\ row1.num_taps = row.num_taps /\ row1.with_taps = row.with_taps
      BY <2>1 DEF AnyRows, Noted
    <2> HIDE DEF row1
    <2>4. QED
      BY <2>2, <2>3 DEF Rows, NeedsTap
  <1>3. WithTapRight(row1, cell.width) = r
    BY <1>2 DEF WithTapRight
  <1> HIDE DEF row1, r
  <1>4. InstantiateBack(row, cell) = new
    BY <1>3 DEF InstantiateBack, row1
  <1>5. ~Empty(row1) /\ Back(row1) = Back(row)
    BY <1>2 DEF Empty, Back
  <1>6. /\ t \in Tiles /\ t.tap /\ t.left \in Int /\ t.width \in Nat
        /\ t.left = RightOf(Back(row)) + row.blank_right
    <2>1. t = TileAt(NextPointRight(row1, Tap), Tap, yes) /\ yes \in BOOLEAN /\ yes
      OBVIOUS
    <2> HIDE DEF t, yes
    <2>2. /\ t \in Tiles /\ t.left \in Int /\ t.width \in Nat
      BY <1>1, <1>2, <2>1, RightTile
    <2>3. t.tap = yes
      BY <1>1, <1>2, <2>1, RightTile, Zenon
    <2>4. t.left = RightOf(Back(row1)) + row1.blank_right
      BY <1>5, <2>1 DEF TileAt, NextPointRight, Beside
    <2>5. QED
      BY <1>2, <1>5, <2>1, <2>2, <2>3, <2>4, Zenon
  <1> HIDE DEF t
  <1>7. /\ r0 \in Rows /\ r0.first = row.first /\ r0.last = row.last + 1
        /\ r0.tiles[row.last + 1] = t /\ r0.blank_right = row.blank_right
    BY <1>2, <1>6, PushedBack
  <1> HIDE DEF r0
  <1>8. r \in Rows /\ r.first = row.first /\ r.last = row.last + 1
        /\ r.tiles = r0.tiles /\ r.blank_right = row.blank_right /\ r.to_tap_right = 0
    <2> USE DEF r
    <2>1. r0 \in AnyRows /\ r0.num_taps + 1 \in Nat /\ 0 \in Nat
      BY <1>7, RowShape
    <2>2. r \in AnyRows
      BY <2>1, Zenon DEF AnyRows
    <2>3. /\ r.first = r0.first /\ r.last = r0.last /\ r.tiles = r0.tiles
          /\ r.blank_right = r0.blank_right /\ r.to_tap_right = 0
      BY <2>1 DEF AnyRows
    <2> HIDE DEF r
    <2>4. QED
      BY <1>7, <2>2, <2>3 DEF Rows
  <1>9. row.first \in Int /\ row.last \in Int /\ row.first <= row.last /\ row.blank_right \in Nat
    BY RowShape DEF Empty
  <1>10. ~Empty(r) /\ Back(r) = t
    BY <1>7, <1>8, <1>9 DEF Empty, Back
  <1>11. /\ u \in Tiles /\ u.left \in Int /\ u.width = cell.width
         /\ u.left = RightOf(t) + row.blank_right
    <2>1. u = TileAt(NextPointRight(r, cell), cell, no) /\ no \in BOOLEAN
      OBVIOUS
    <2> HIDE DEF u, no
    <2>2. QED
      BY <1>1, <1>8, <1>10, <2>1, RightTile
  <1> HIDE DEF u
  <1>12. /\ r2 \in Rows /\ r2.first = row.first /\ r2.last = row.last + 2
         /\ r2.tiles[row.last + 1] = t /\ r2.tiles[row.last + 2] = u
         /\ r2.to_tap_right = 0
    <2>1. /\ r2 \in Rows /\ r2.first = r.first /\ r2.last = r.last + 1
          /\ r2.tiles[r.last + 1] = u
          /\ \A i \in r.first..r.last : r2.tiles[i] = r.tiles[i]
          /\ r2.to_tap_right = r.to_tap_right
      BY <1>8, <1>11, PushedBack
    <2> HIDE DEF r2
    <2>2. r.last \in r.first..r.last /\ r.last + 1 = row.last + 2
      BY <1>8, <1>9
    <2>3. QED
      BY <1>7, <1>8, <2>1, <2>2
  <1> HIDE DEF r2
  <1>13. /\ new.first = row.first /\ new.last = row.last + 2 /\ new.tiles = r2.tiles
         /\ new.to_tap_right = cell.width
    <2>1. r2 \in AnyRows
      BY <1>12, RowShape
    <2>2. QED
      BY <1>1, <1>12, <2>1 DEF AnyRows, AccountRight
  <1> HIDE DEF new
  <1>14. Back(new) = u
    BY <1>12, <1>13 DEF Back
  <1>15. TapAt(new, row.last + 1)
    BY <1>6, <1>9, <1>12, <1>13 DEF TapAt
  <1>16. RightOf(u) - RightOf(t) = cell.width + row.blank_right
    BY <1>1, <1>6, <1>9, <1>11 DEF RightOf
  <1>17. QED
    BY <1>4, <1>6, <1>11, <1>12, <1>13, <1>14, <1>15, <1>16
-----------------------------------------------------------------------------
(* Placing an instance in the bank.                                         *)

LEMMA LeastOf ==
    ASSUME NEW S \in SUBSET Nat, S # {}
    PROVE  \E m \in S : \A n \in S : m <= n
  <1> DEFINE R == OpToRel(<, Nat)
  <1>1. IsWellFoundedOn(R, Nat)
    BY NatLessThanWellFounded
  <1> HIDE DEF R
  <1>2. PICK m \in S : \A n \in S : <<n, m>> \notin R
    BY <1>1, WFMin
  <1>3. \A n \in S : <<n, m>> \in R <=> n < m
    BY DEF R, OpToRel
  <1>4. \A n \in S : n \in Nat /\ m \in Nat /\ ~(n < m)
    BY <1>2, <1>3
  <1>5. QED
    BY <1>4

\* Each row stands on the one below, and no row on one that comes later.
LEMMA RowsStack ==
    ASSUME Parameters, OneHeight, NEW before, NEW first, Good(before, first),
           NEW y \in [1..Len(before) -> Int], Abutting(before, y),
           NEW a \in 1..Len(before), ~Empty(before[a]),
           NEW b \in 1..Len(before), a < b
    PROVE  y[a] + Tap.height <= y[b]
  <1> DEFINE n == Len(before)
             S == {k \in Nat : a < k /\ k <= n /\ ~(y[a] + Tap.height <= y[k])}
  <1>1. n \in Nat /\ before \in Seq(Rows) /\ Tap.height \in Nat /\ a \in Nat /\ b \in Nat
    BY DEF Good, Parameters, Cells
  <1>2. \A k \in 2..n : /\ k \in 1..n /\ k - 1 \in 1..n /\ y[k] \in Int /\ y[k - 1] \in Int
                        /\ Empty(before[k - 1]) => y[k] = y[k - 1]
                        /\ ~Empty(before[k - 1]) => y[k] = y[k - 1] + Tap.height
    <2> SUFFICES ASSUME NEW k \in 2..n
                 PROVE  /\ k \in 1..n /\ k - 1 \in 1..n /\ y[k] \in Int /\ y[k - 1] \in Int
                        /\ Empty(before[k - 1]) => y[k] = y[k - 1]
                        /\ ~Empty(before[k - 1]) => y[k] = y[k - 1] + Tap.height
      OBVIOUS
    <2>1. k \in 1..n /\ k - 1 \in 1..n /\ y[k] \in Int /\ y[k - 1] \in Int
      BY <1>1
    <2> DEFINE below == before[k - 1]
               h == y[k] - (LowY(below) + (y[k - 1] - below.y))
    <2>2. below \in Rows /\ Level(below)
      BY <1>1, <2>1 DEF Good, Sound
    <2>3. IsHeight(below, h)
      BY DEF Abutting
    <2> HIDE DEF below
    <2>4. LowY(below) = below.y /\ below.y \in Int
      <3>1. below.y \in Int /\ (~Empty(below) => below.first \in below.first..below.last)
        BY <2>2, RowShape DEF Empty
      <3>2. QED
        BY <2>2, <3>1 DEF LowY, Level, Front
    <2>5. h = y[k] - y[k - 1]
      BY <2>1, <2>4
    <2> HIDE DEF h
    <2>6. Empty(below) => h = 0
      BY <2>3 DEF IsHeight
    <2>7. ~Empty(below) => h = Tap.height
      BY <2>2, <2>3 DEF IsHeight, Level
    <2>8. QED
      BY <1>1, <2>1, <2>5, <2>6, <2>7 DEF below
  <1>3. SUFFICES ASSUME b \in S
                 PROVE  FALSE
    BY <1>1
  <1>4. PICK m \in S : \A k \in S : m <= k
    BY <1>3, LeastOf
  <1>5. m \in 2..n /\ a <= m - 1 /\ y[a] \in Int
    BY <1>1, <1>4
  <1>6. CASE a = m - 1
    BY <1>1, <1>2, <1>4, <1>5, <1>6
  <1>7. CASE a < m - 1
    <2>1. m - 1 \notin S /\ m - 1 \in Nat /\ m - 1 <= n
      BY <1>1, <1>4, <1>5
    <2>2. y[a] + Tap.height <= y[m - 1]
      BY <1>7, <2>1
    <2>3. /\ y[m - 1] \in Int /\ y[m] \in Int
          /\ y[m] = y[m - 1] \/ y[m] = y[m - 1] + Tap.height
      BY <1>2, <1>5
    <2>4. QED
      BY <1>1, <1>4, <1>5, <2>2, <2>3
  <1>8. QED
    BY <1>1, <1>5, <1>6, <1>7

LEMMA FixedIsApart ==
    ASSUME Parameters, OneHeight, NEW before, NEW first, Good(before, first),
           NEW after, Fixed(before, after)
    PROVE  BankIsApart(after)
  <1>1. PICK y \in [1..Len(before) -> Positions], x \in [1..Len(before) -> Positions] :
            /\ Abutting(before, y)
            /\ after = [i \in 1..Len(before) |-> MoveTo(before[i], x[i], y[i])]
    BY Zenon DEF Fixed
  <1>2. x \in [1..Len(before) -> Int] /\ y \in [1..Len(before) -> Int]
    BY DEF Parameters
  <1>3. Good(after, first) /\ Len(after) = Len(before) /\ Len(before) \in Nat
    <2>1. Good(after, first)
      BY <1>1, <1>2, RowsMove
    <2>2. Len(before) \in Nat /\ DOMAIN after = 1..Len(before)
      BY <1>1 DEF Good
    <2>3. QED
      BY <2>1, <2>2 DEF Good
  <1>4. \A a \in 1..Len(before) :
            /\ after[a] \in Rows /\ InOrder(after[a]) /\ Level(after[a])
            /\ after[a].y = y[a] /\ y[a] \in Int
            /\ after[a].first = before[a].first /\ after[a].last = before[a].last
    <2> SUFFICES ASSUME NEW a \in 1..Len(before)
                 PROVE  /\ after[a] \in Rows /\ InOrder(after[a]) /\ Level(after[a])
                        /\ after[a].y = y[a] /\ y[a] \in Int
                        /\ after[a].first = before[a].first /\ after[a].last = before[a].last
      OBVIOUS
    <2>1. after[a] \in Rows /\ InOrder(after[a]) /\ Level(after[a])
      BY <1>3 DEF Good, Sound
    <2>2. after[a] = MoveTo(before[a], x[a], y[a]) /\ before[a] \in Rows
          /\ x[a] \in Int /\ y[a] \in Int
      BY <1>1, <1>2 DEF Good
    <2>3. Moved(before[a], after[a], x[a] - before[a].x, y[a] - before[a].y)
      BY <2>2, MovedRow
    <2>4. before[a].y \in Int
      BY <2>2, RowShape
    <2>5. QED
      BY <2>1, <2>2, <2>3, <2>4 DEF Moved
  <1> SUFFICES ASSUME NEW a \in 1..Len(after), NEW b \in 1..Len(after),
                      NEW i \in after[a].first..after[a].last,
                      NEW j \in after[b].first..after[b].last, a # b \/ i # j
               PROVE  TilesAreApart(after[a].tiles[i], after[b].tiles[j])
    BY DEF BankIsApart
  <1>5. a \in 1..Len(before) /\ b \in 1..Len(before)
    BY <1>3
  <1>6. /\ after[a].first \in Int /\ after[a].last \in Int
        /\ after[b].first \in Int /\ after[b].last \in Int
    BY <1>4, <1>5, RowShape
  <1>7. CASE a = b
    <2>1. i < j \/ j < i
      BY <1>6, <1>7
    <2>2. QED
      BY <1>4, <1>5, <1>7, <2>1 DEF InOrder, TilesAreApart
  <1>8. CASE a # b
    <2>1. /\ after[a].tiles[i].bottom = y[a] /\ after[a].tiles[i].height = Tap.height
          /\ after[b].tiles[j].bottom = y[b] /\ after[b].tiles[j].height = Tap.height
      BY <1>4, <1>5 DEF Level
    <2>2. ~Empty(before[a]) /\ ~Empty(before[b])
      BY <1>4, <1>5, <1>6 DEF Empty
    <2>3. CASE a < b
      <3>1. y[a] + Tap.height <= y[b]
        BY <1>1, <1>2, <1>5, <2>2, <2>3, RowsStack
      <3>2. QED
        BY <2>1, <3>1 DEF TilesAreApart
    <2>4. CASE b < a
      <3>1. y[b] + Tap.height <= y[a]
        BY <1>1, <1>2, <1>5, <2>2, <2>4, RowsStack
      <3>2. QED
        BY <2>1, <3>1 DEF TilesAreApart
    <2>5. QED
      BY <1>3, <1>5, <1>8, <2>3, <2>4
  <1>9. QED
    BY <1>7, <1>8

\* When the bank places an instance (memory_bank.cc: InstantiateLeft,
\* InstantiateRight, InstantiateInside), no two instances of all its rows
\* overlap afterwards, whatever was done to rows before, if all cells are as
\* high as a tap.
THEOREM PlacingKeepsApart ==
    ASSUME Parameters, OneHeight
    PROVE  Spec => PlacingSettles
  <1>1. BankInv /\ Place => BankIsApart(rows')
    <2> SUFFICES ASSUME BankInv, Place
                 PROVE  BankIsApart(rows')
      OBVIOUS
    <2>1. PICK index \in 0..MaxRows - 1, cell \in Placed :
              InstantiateLeft(index, cell) \/ InstantiateRight(index, cell)
      BY Zenon DEF Place, InstantiateInside
    <2>2. index \in Nat
      BY DEF Parameters
    <2> DEFINE bank == RowsUpTo(index)
               left == InstantiateAndInsertFront(bank[index + 1], cell)
               right == InstantiateBack(bank[index + 1], cell)
    <2>3. Good(bank, rotate_first_row) /\ index + 1 \in 1..Len(bank)
      BY <2>2, UpToIsGood
    <2>4. \/ Fixed([bank EXCEPT ![index + 1] = left], rows')
          \/ Fixed([bank EXCEPT ![index + 1] = right], rows')
      BY <2>1 DEF InstantiateLeft, InstantiateRight
    <2> HIDE DEF bank
    <2>5. Keeps(bank[index + 1], left) /\ Keeps(bank[index + 1], right)
      BY <2>3, InstantiateBackKeeps, InstantiateAndInsertFrontKeeps DEF Good
    <2> HIDE DEF left, right
    <2>6. /\ Good([bank EXCEPT ![index + 1] = left], rotate_first_row)
          /\ Good([bank EXCEPT ![index + 1] = right], rotate_first_row)
      BY <2>3, <2>5, OneRowChanges
    <2>7. QED
      BY <2>4, <2>6, FixedIsApart
  <1>2. BankInv /\ [Next]_vars => [Place => BankIsApart(rows')]_vars
    BY <1>1
  <1>3. QED
    BY <1>2, BankInvariant, PTL DEF Spec, PlacingSettles
====
