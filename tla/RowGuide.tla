---- MODULE RowGuide ----
(***************************************************************************)
(* RowGuide: instances of cells placed side by side in a row, with blank    *)
(* space between them and tap cells put in where the last tap would be too  *)
(* far away.  A row is a value; MemoryBank keeps several.                   *)
(*                                                                         *)
(* instances_ is a function from an interval of integers, so that a row     *)
(* grows at both ends: its front is at row.first and its back at row.last.  *)
(* A tile is the tiling bounds of an instance.  Rotation by 180 degrees,    *)
(* the cell drawn in it and the circuit beside it do not show.              *)
(*                                                                         *)
(* All rows have the same tap cell or none, and start with a tap, as they   *)
(* do by default.  What generators change in a row after it was made (its   *)
(* origin, its rotation, a tap cell of its own) is left out.                *)
(***************************************************************************)
EXTENDS Integers

CONSTANTS
    Tap,               \* the tap cell: its width and height
    max_tap_distance

Cells == [width : Nat, height : Nat]
Tiles == [left : Int, bottom : Int, width : Nat, height : Nat, tap : BOOLEAN]

NewRow(x, y, rotated, with_taps) ==
    [x |-> x, y |-> y,                           \* origin_
     first |-> 1, last |-> 0, tiles |-> [i \in {} |-> 0],
     blank_left |-> 0, blank_right |-> 0,        \* blank space beyond the tiles
     to_tap_left |-> 0, to_tap_right |-> 0,      \* how far the last tap is
     num_taps |-> 0,
     rotated |-> rotated,                        \* rotate_instances_
     with_taps |-> with_taps,                    \* tap_cell_ is set
     \* Whether space was ever left blank in it, or a cell put in without taps or too
     \* wide for them (history).
     gapped |-> FALSE]

Empty(row) == row.last < row.first
Front(row) == row.tiles[row.first]
Back(row) == row.tiles[row.last]
RightOf(t) == t.left + t.width

-----------------------------------------------------------------------------
\* Tiles are centred on their neighbour.
Beside(x, t, cell) == [x |-> x, y |-> (t.bottom + t.height \div 2) - cell.height \div 2]

NextPointLeft(row, cell) ==
    IF Empty(row) THEN [x |-> row.x - row.blank_left, y |-> row.y]
    ELSE Beside(Front(row).left - cell.width - row.blank_left, Front(row), cell)

NextPointRight(row, cell) ==
    IF Empty(row) THEN [x |-> row.x + row.blank_right, y |-> row.y]
    ELSE Beside(RightOf(Back(row)) + row.blank_right, Back(row), cell)

\* Place, and the insertion at either end.
TileAt(p, cell, tap) ==
    [left |-> p.x, bottom |-> p.y, width |-> cell.width, height |-> cell.height, tap |-> tap]

PushFront(row, t) ==
    [row EXCEPT !.first = @ - 1,
                !.tiles = [i \in row.first - 1..row.last |->
                               IF i < row.first THEN t ELSE row.tiles[i]]]

PushBack(row, t) ==
    [row EXCEPT !.last = @ + 1,
                !.tiles = [i \in row.first..row.last + 1 |->
                               IF i > row.last THEN t ELSE row.tiles[i]]]

\* AccountForPlacement: without a tap both ends are as far from one.
AccountLeft(row, span) ==
    [row EXCEPT !.to_tap_left = @ + span,
                !.to_tap_right = IF row.num_taps = 0 THEN @ + span ELSE @]

AccountRight(row, span) ==
    [row EXCEPT !.to_tap_right = @ + span,
                !.to_tap_left = IF row.num_taps = 0 THEN @ + span ELSE @]

\* NeedsTap: a row starts with one.
NeedsTap(row, distance, span) ==
    row.with_taps /\ (row.num_taps = 0 \/ distance + span > max_tap_distance)

\* MaybeAddTapLeftFor, MaybeAddTapRightFor.
WithTapLeft(row, span) ==
    IF NeedsTap(row, row.to_tap_left, span)
    THEN [PushFront(row, TileAt(NextPointLeft(row, Tap), Tap, TRUE)) EXCEPT
              !.num_taps = @ + 1, !.to_tap_left = 0]
    ELSE row

WithTapRight(row, span) ==
    IF NeedsTap(row, row.to_tap_right, span)
    THEN [PushBack(row, TileAt(NextPointRight(row, Tap), Tap, TRUE)) EXCEPT
              !.num_taps = @ + 1, !.to_tap_right = 0]
    ELSE row

\* ShiftAllRight.
Shifted(row, by) ==
    [row EXCEPT !.tiles = [i \in row.first..row.last |->
                               [row.tiles[i] EXCEPT !.left = @ + by]]]

-----------------------------------------------------------------------------
Noted(row, cell) ==
    [row EXCEPT !.gapped = @ \/ ~row.with_taps \/ cell.width > max_tap_distance]

InstantiateBack(row, cell) ==
    LET r == WithTapRight(Noted(row, cell), cell.width)
        placed == PushBack(r, TileAt(NextPointRight(r, cell), cell, FALSE))
    IN  AccountRight([placed EXCEPT !.blank_right = 0], cell.width)

InstantiateFront(row, cell) ==
    LET r == WithTapLeft(Noted(row, cell), cell.width)
        placed == PushFront(r, TileAt(NextPointLeft(r, cell), cell, FALSE))
    IN  AccountLeft([placed EXCEPT !.blank_left = 0], cell.width)

FrontX(row) == IF Empty(row) THEN row.x ELSE Front(row).left

\* The others move right: the front stays where it was.
InstantiateAndInsertFront(row, cell) ==
    LET r == WithTapLeft(Noted(row, cell), cell.width)
        placed == AccountLeft(PushFront(r, TileAt(NextPointLeft(r, cell), cell, FALSE)), cell.width)
    IN  Shifted(placed, FrontX(row) - FrontX(placed))

AddBlankSpaceBack(row, span) ==
    [AccountRight(WithTapRight(row, span), span) EXCEPT !.blank_right = @ + span,
                                                        !.gapped = TRUE]

AddBlankSpaceFront(row, span) ==
    [AccountLeft(WithTapLeft(row, span), span) EXCEPT !.blank_left = @ + span,
                                                      !.gapped = TRUE]

AddBlankSpaceAndInsertFront(row, span) ==
    LET r == [AccountLeft(WithTapLeft(row, span), span) EXCEPT !.gapped = TRUE]
    IN  IF Empty(r) THEN [r EXCEPT !.blank_right = @ + span]
        ELSE Shifted(r, FrontX(row) - (FrontX(r) - span))

MoveTo(row, x, y) ==
    [row EXCEPT !.x = x, !.y = y,
                !.tiles = [i \in row.first..row.last |->
                               [row.tiles[i] EXCEPT !.left = @ + (x - row.x),
                                                    !.bottom = @ + (y - row.y)]]]

\* set_tap_cell and clear_tap_cell.
SetTaps(row, on) == [row EXCEPT !.with_taps = on]

-----------------------------------------------------------------------------
\* LowerLeft and LowerRight.
Lesser(a, b) == IF a < b THEN a ELSE b
Greater(a, b) == IF a > b THEN a ELSE b

LowY(row) == IF Empty(row) THEN row.y ELSE Front(row).bottom
LeftX(row) == IF Empty(row) THEN row.x - row.blank_left
              ELSE Lesser(Front(row).left, row.x) - row.blank_left
RightX(row) == IF Empty(row) THEN row.x + row.blank_right
               ELSE Greater(RightOf(Back(row)), row.x) + row.blank_right

\* UpperLeft, of the front alone.
HighY(row) == IF Empty(row) THEN row.y ELSE Front(row).bottom + Front(row).height

IsHeight(row, h) ==
    IF Empty(row) THEN h = 0
    ELSE /\ \A i \in row.first..row.last : row.tiles[i].height <= h
         /\ \E i \in row.first..row.last : row.tiles[i].height = h

-----------------------------------------------------------------------------
\* Whatever is added to a row at its ends, instances stay in order and apart.
InOrder(row) ==
    \A i, j \in row.first..row.last : i < j => RightOf(row.tiles[i]) <= row.tiles[j].left

\* The rule taps are for: nothing in a row is farther from a tap than allowed.
\* i and j are taps with none between them, or the ends of the row.
TapAt(row, i) == i \in row.first..row.last /\ row.tiles[i].tap

TapsInReach(row) ==
    \A i, j \in row.first..row.last :
        /\ TapAt(row, i) /\ TapAt(row, j) /\ i < j
        /\ \A k \in i + 1..j - 1 : ~TapAt(row, k)
        => row.tiles[j].left - RightOf(row.tiles[i]) <= max_tap_distance

EndsInReach(row) ==
    \A i \in row.first..row.last : TapAt(row, i) =>
        /\ (\A k \in row.first..i - 1 : ~TapAt(row, k)) =>
               row.tiles[i].left - Front(row).left <= max_tap_distance
        /\ (\A k \in i + 1..row.last : ~TapAt(row, k)) =>
               RightOf(Back(row)) - RightOf(row.tiles[i]) <= max_tap_distance
====
