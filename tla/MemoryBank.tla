---- MODULE MemoryBank ----
(***************************************************************************)
(* MemoryBank: rows of instances stacked on each other.  Row i of the code  *)
(* is rows[i + 1].  Nothing sets grow_down_, so rows grow upwards.          *)
(* Generators also use a row by itself, and then nothing aligns the others  *)
(* until the bank places its next instance.                                 *)
(***************************************************************************)
EXTENDS RowGuide, Sequences

CONSTANTS
    Placed,                 \* the cells that may be placed, of Cells
    Spans,                  \* the blank spaces that may be added, naturals
    MaxRows,                \* how many rows there may be
    Positions,              \* where rows may lie, integers
    Switched,               \* whether tap cells may be turned on and off
    has_tap_cell,           \* tap_cell_ of the bank
    rotate_alternate_rows,
    horizontal_alignment    \* "none", "left" or "right"

VARIABLES
    rows,                   \* rows_
    rotate_first_row

vars == <<rows, rotate_first_row>>

NumRows == Len(rows)

Init == rows = <<>> /\ rotate_first_row \in BOOLEAN

-----------------------------------------------------------------------------
Rotated(first, index) == IF first THEN index % 2 = 0 ELSE index % 2 # 0

BankRow(y, first, index) ==
    NewRow(0, y, rotate_alternate_rows /\ Rotated(first, index), has_tap_cell)

\* Row: all rows up to the one asked for are made, at one place.
RowsUpTo(index) ==
    LET y == IF NumRows = 0 THEN 0 ELSE HighY(rows[NumRows])
    IN  [i \in 1..Greater(NumRows, index + 1) |->
            IF i <= NumRows THEN rows[i] ELSE BankRow(y, rotate_first_row, i - 1)]

\* EnsureVerticalAbutment: the first row stays, each other is moved onto the
\* one below it.
Abutting(before, y) ==
    /\ y[1] = before[1].y
    /\ \A i \in 2..Len(before) :
           IsHeight(before[i - 1], y[i] - (LowY(before[i - 1]) + (y[i - 1] - before[i - 1].y)))

\* AlignLeft and AlignRight: rows begin, or end, where the longest does.
AlignedX(before, row, x) ==
    CASE horizontal_alignment = "none" -> x = row.x
      [] horizontal_alignment = "left" ->
             \E edge \in {0} \cup {LeftX(before[i]) : i \in 1..Len(before)} :
                 /\ \A i \in 1..Len(before) : edge <= 0 /\ edge <= LeftX(before[i])
                 /\ x = edge + (row.x - LeftX(row))
      [] horizontal_alignment = "right" ->
             \E edge \in {0} \cup {RightX(before[i]) : i \in 1..Len(before)} :
                 /\ \A i \in 1..Len(before) : edge >= 0 /\ edge >= RightX(before[i])
                 /\ x = edge + (row.x - RightX(row))

\* FixAlignments.
Fixed(before, after) ==
    \E y \in [1..Len(before) -> Positions] : Abutting(before, y) /\
        \E x \in [1..Len(before) -> Positions] :
        /\ \A i \in 1..Len(before) : AlignedX(before, before[i], x[i])
        /\ after = [i \in 1..Len(before) |-> MoveTo(before[i], x[i], y[i])]

-----------------------------------------------------------------------------
Row(index) ==
    /\ rows' = RowsUpTo(index)
    /\ UNCHANGED rotate_first_row

\* The height of the tiling bounds of a row.
Spanned(row, h) ==
    \E i, j \in row.first..row.last :
        /\ \A k \in row.first..row.last :
               /\ row.tiles[i].bottom <= row.tiles[k].bottom
               /\ row.tiles[k].bottom + row.tiles[k].height <= row.tiles[j].bottom + row.tiles[j].height
        /\ h = row.tiles[j].bottom + row.tiles[j].height - row.tiles[i].bottom

\* The new row goes below the tiles of the first, if there are any; the others
\* keep their rotation.
InsertRowZero ==
    /\ NumRows < MaxRows
    /\ rotate_first_row' = (rotate_first_row # rotate_alternate_rows)
    /\ \E y \in Positions :
           /\ IF NumRows = 0 \/ Empty(rows[1]) THEN y = 0 ELSE Spanned(rows[1], rows[1].y - y)
           /\ rows' = <<BankRow(y, rotate_first_row', 0)>> \o rows

InstantiateLeft(index, cell) ==
    /\ Fixed([RowsUpTo(index) EXCEPT ![index + 1] = InstantiateAndInsertFront(@, cell)], rows')
    /\ UNCHANGED rotate_first_row

InstantiateRight(index, cell) ==
    /\ Fixed([RowsUpTo(index) EXCEPT ![index + 1] = InstantiateBack(@, cell)], rows')
    /\ UNCHANGED rotate_first_row

InstantiateInside(index, cell) ==
    IF horizontal_alignment = "right" THEN InstantiateLeft(index, cell)
    ELSE InstantiateRight(index, cell)

\* MoveTo, and AlignPointTo: as a whole, by the origin of the first row.
MoveBank(x, y) ==
    /\ rows' = [i \in 1..NumRows |->
                   MoveTo(rows[i], x + (rows[i].x - rows[1].x), y + (rows[i].y - rows[1].y))]
    /\ UNCHANGED rotate_first_row

\* What a generator does to a row by itself.
Changes(row) ==
    (UNION {{InstantiateBack(row, c), InstantiateFront(row, c),
             InstantiateAndInsertFront(row, c)} : c \in Placed})
        \cup (UNION {{AddBlankSpaceBack(row, s), AddBlankSpaceFront(row, s),
                      AddBlankSpaceAndInsertFront(row, s)} : s \in Spans})
        \cup {SetTaps(row, on) : on \in Switched}

UseRow(index) ==
    /\ \E row \in Changes(RowsUpTo(index)[index + 1]) :
           rows' = [RowsUpTo(index) EXCEPT ![index + 1] = row]
    /\ UNCHANGED rotate_first_row

Place ==
    \E index \in 0..MaxRows - 1, cell \in Placed :
        InstantiateLeft(index, cell) \/ InstantiateRight(index, cell)
            \/ InstantiateInside(index, cell)

Next ==
    \/ Place
    \/ \E index \in 0..MaxRows - 1 : Row(index) \/ UseRow(index)
    \/ InsertRowZero
    \/ \E x, y \in Positions : MoveBank(x, y)

Spec == Init /\ [][Next]_vars

-----------------------------------------------------------------------------
\* In every row, whatever was added at either end.
RowsInOrder == \A i \in 1..NumRows : InOrder(rows[i])

\* The rule taps are for, in every row in which no space was left blank, with whatever
\* cells, and in whatever order, it grew at either end.
RowsInReach ==
    \A i \in 1..NumRows : ~rows[i].gapped => TapsInReach(rows[i]) /\ EndsInReach(rows[i])

\* Rows that touch share their power rails: one of them is turned around, also
\* after rows were put below the first.
RowsAlternate ==
    rotate_alternate_rows =>
        \A i \in 1..NumRows : rows[i].rotated = Rotated(rotate_first_row, i - 1)

TilesAreApart(s, t) ==
    \/ RightOf(s) <= t.left \/ RightOf(t) <= s.left
    \/ s.bottom + s.height <= t.bottom \/ t.bottom + t.height <= s.bottom

BankIsApart(bank) ==
    \A a, b \in 1..Len(bank) :
        \A i \in bank[a].first..bank[a].last, j \in bank[b].first..bank[b].last :
            a # b \/ i # j => TilesAreApart(bank[a].tiles[i], bank[b].tiles[j])

\* However rows were used before, when the bank places an instance no two of
\* all its rows overlap.
PlacingSettles == [][Place => BankIsApart(rows')]_vars

\* When every cell has one height, rows are as high.
OneHeight == \A c \in Placed : c.height = Tap.height
====
