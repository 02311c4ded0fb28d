------------------------------ MODULE MenuModel ------------------------------
(***************************************************************************)
(* A vertical menu: rows and the selected one (ui::MenuModel).  Indices    *)
(* count from 0 as in the code.  All rows the program builds are enabled.  *)
(***************************************************************************)
EXTENDS Integers, Sequences

\* The first row is selected; an empty menu has none.
SetItems(rows) == [rows |-> rows, at |-> 0]
NoMenu         == SetItems(<<>>)

SelectedItem(menu) == IF menu.rows = <<>> THEN "none" ELSE menu.rows[menu.at + 1]

Has(menu, id) == \E i \in DOMAIN menu.rows : menu.rows[i] = id

SelectItemById(menu, id) ==
    IF Has(menu, id)
    THEN [menu EXCEPT !.at = (CHOOSE i \in DOMAIN menu.rows : menu.rows[i] = id) - 1]
    ELSE menu

\* select_item_by_id tells whether the selection moved, not whether it is there.
Selects(menu, id) == SelectItemById(menu, id) # menu

MoveSelection(menu, by) ==
    IF menu.rows = <<>> THEN menu
    ELSE [menu EXCEPT !.at = (menu.at + by) % Len(menu.rows)]

\* New rows; the preferred one is selected if that is a change, else the one
\* that was selected before.
Rebuilt(menu, rows, preferred, before) ==
    LET new == SetItems(rows) IN
    IF Selects(new, preferred) THEN SelectItemById(new, preferred)
    ELSE SelectItemById(new, before)
=============================================================================
