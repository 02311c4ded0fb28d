------------------------------ MODULE GridMoves ------------------------------
(***************************************************************************)
(* Moving the selection in the grids of hosts and apps, whose last row may *)
(* be short, and on the keypad, which wraps around.  Indices count from 0, *)
(* row by row.                                                             *)
(***************************************************************************)
EXTENDS Integers

Least(a, b) == IF a < b THEN a ELSE b

GridRows(n, columns)        == (n + columns - 1) \div columns
RowWidth(n, row, columns)   == Least(n - row * columns, columns)

ClosestInRow(n, row, columns, preferred) ==
    row * columns + Least(preferred, RowWidth(n, row, columns) - 1)

\* Left and right go on in the row before and after; at the ends they stay.
MoveColumn(n, by, at) == IF at + by \in 0 .. n - 1 THEN at + by ELSE at

\* The last row is not left downwards; above the first one is no cell.
AboveFirst(columns, by, at) == (at \div columns) + by < 0
MoveRow(n, columns, by, at) ==
    IF AboveFirst(columns, by, at) THEN at
    ELSE ClosestInRow(n, Least((at \div columns) + by, GridRows(n, columns) - 1), columns, at % columns)

\* The keypad: rows and columns are rings, each row of its own width.
KeypadRow(n, columns, by, at) ==
    ClosestInRow(n, ((at \div columns) + by) % GridRows(n, columns), columns, at % columns)
KeypadColumn(n, columns, by, at) ==
    LET row == at \div columns IN
    row * columns + (((at % columns) + by) % RowWidth(n, row, columns))
=============================================================================
